---- MODULE Spec2Model ----
(***************************************************************************)
(* Model of SmartCSVProcessor (src/csv_processor.py), of                   *)
(* TransactionCategorizer (src/categorizer.py), of PlaidConnector          *)
(* (src/plaid_connector.py) and of the session state of the app            *)
(* (src/app.py).                                                           *)
(*                                                                         *)
(* Text is modelled by TLA+ strings, handled character by character, so    *)
(* that lower-casing, trimming, substring matching, amount cleaning and    *)
(* number parsing are computed the way the code computes them.             *)
(*                                                                         *)
(* Input domain: a table has at least one column, its column names are     *)
(* strings that stay pairwise distinct after normalisation, and its cells  *)
(* are text or missing (NaN).                                              *)
(***************************************************************************)
EXTENDS Integers, Sequences, FiniteSets, TLC

VARIABLES
    self,              \* the processor instance: its three pattern lists
    input,             \* the caller's argument file_path_or_df
    pc,                \* "ready" | "returned" | "raised"
    op,                \* "none" | "process_csv" | "preview_mapping"
    date_col,          \* local date_col of the call
    amount_col,        \* local amount_col of the call
    description_cols,  \* local description_cols of the call
    standard_df,       \* local result_df of process_csv once its three
                       \* columns are filled, before dropna and sort
    result_df,         \* the table returned by process_csv
    preview,           \* the dict returned by preview_mapping
    error,             \* the message of the ValueError raised, "" if none
    pandas,            \* what the pandas in use does where its documentation
                       \* leaves it open: the loose date texts its parser
                       \* accepts, and the order its sort gives equal dates
    history,           \* the finished process_csv calls of this instance:
                       \* each argument with the outcome it had
    transaction,       \* the arguments of categorize_transaction
    chain_result,      \* what categorization_chain.run gives for them
    category,          \* the value categorize_transaction returned
    previews,          \* the finished preview_mapping calls of this
                       \* instance: each argument with the dict returned
    access_tokens,     \* PlaidConnector.access_tokens: the dict from
                       \* institution name to access token and item id, its
                       \* entries in insertion order
    plaid_pc,          \* "idle" | "paging" | "returned" | "raised"
    plaid_call,        \* the PlaidConnector method called last, its
                       \* institution_name, and whether the call has made
                       \* a request to the Plaid API
    transactions,      \* local transactions of get_transactions
    response,          \* what the Plaid API answered last
    plaid_result,      \* what the PlaidConnector call returned or raised
    last_event,        \* for every institution name, the later of its last
                       \* successful exchange and its last remove_account
    session_state,     \* st.session_state of the app: transactions_df,
                       \* advisor, chat_history
    app_error          \* what the last run of the app script ended with

csv_vars == <<self, input, pc, op, date_col, amount_col, description_cols,
              standard_df, result_df, preview, error, pandas, history,
              previews>>

categorizer_vars == <<transaction, chain_result, category>>

plaid_vars == <<access_tokens, plaid_pc, plaid_call, transactions, response,
                plaid_result, last_event>>

app_vars == <<session_state, app_error>>

vars == <<csv_vars, categorizer_vars, plaid_vars, app_vars>>

----------------------------------------------------------------------------
(* SmartCSVProcessor.__init__: the three pattern lists.                    *)

date_patterns ==
    <<"date", "transaction date", "post date", "posting date",
      "trans date", "transaction_date", "posted date", "value date">>

amount_patterns ==
    <<"amount", "transaction amount", "debit", "credit",
      "value", "transaction_amount", "sum", "total">>

description_patterns ==
    <<"description", "memo", "details", "transaction details",
      "merchant", "name", "payee", "reference", "transaction_description",
      "narrative", "transaction type", "category">>

\* The instance after __init__.
SmartCSVProcessor ==
    [date_patterns        |-> date_patterns,
     amount_patterns      |-> amount_patterns,
     description_patterns |-> description_patterns]

----------------------------------------------------------------------------
(* The texts of the inputs.                                                *)

Range(seq) == {seq[i] : i \in 1..Len(seq)}

\* Column names, as banks write them, for the tables that exercise the
\* column selection.
ColumnNames ==
    {"Posting Date", "Transaction Date", "Value Date", " DEBIT ",
     "Withdrawal", "Deposit", "Memo", "Merchant", "Note"}

\* Column names for the tables that exercise the debit/credit pair: none
\* holds an amount pattern, two hold a date pattern, two a debit-side
\* pattern, two a credit-side pattern, and one a pattern of each side.
PairColumnNames ==
    {"Date", "Post Date", "Withdrawal", "Outgoing", "Deposit", "Incoming",
     "Withdrawal/Deposit"}

\* The missing cell (float NaN / None in a pandas column).
NaN == "<NaN>"

\* Table families for the row processing: the columns, and for each column
\* the cells a row may hold there.

DateCells == {"2024-01-05", "2024-02-30"}

PairCells == {"45.32", "$1,234.56", "(12.50)", "-20", "0", "", "nan"}

StatementFamily ==
    [columns |-> <<"Post Date", "Debit", "Credit", "Memo">>,
     cells   |-> <<{"2024-01-05", "2024-01-01"}, {"$45.32", ""},
                   {"", "3500.00"}, {"WHOLE FOODS", "PAYROLL"}>>]

LedgerFamily ==
    [columns |-> <<"Date", "Amount", "Description">>,
     cells   |-> <<{"2024-01-05", "2024-01-01", "pending"},
                   {"5", "nan"}, {"Rent"}>>]

PairFamily ==
    [columns |-> <<"Date", "Withdrawal", "Deposit", "Memo">>,
     cells   |-> <<DateCells, PairCells, PairCells, {"Rent", ""}>>]

DescriptionFamily ==
    [columns |-> <<"Date", "Amount", "Memo", "Merchant">>,
     cells   |-> <<DateCells, {"5", "0", NaN},
                   {"  Coffee  ", "nan", "None", "", NaN, "0"},
                   {"Starbucks", "NaN", " none ", " ", NaN, "Tea | Co"}>>]

MerchantFirstFamily ==
    [columns |-> <<"Merchant", "Date", "Amount", "Memo">>,
     cells   |-> <<{"Starbucks", ""}, {"2024-01-05"}, {"5"},
                   {"  Coffee  ", "nan"}>>]

AmountFamily ==
    [columns |-> <<"Date", "Amount", "Description">>,
     cells   |-> <<DateCells,
                   {"$1,234.56", "(45.00)", "€10", "£ 7.5", "", NaN, "abc",
                    "nan", "-3", "1e2", "inf", "0.0"},
                   {"Rent", ""}>>]

HeuristicFamily ==
    [columns |-> <<"Date", "Amount", "Info">>,
     cells   |-> <<{"2024-01-05"}, {"5"}, {"Coffee", "12", "-45.32", NaN}>>]

\* Families whose tables have any number of rows up to the bound.
MultiRowFamilies == {LedgerFamily, HeuristicFamily}

\* Families whose tables have two rows, as the statement of the end-to-end
\* scenario has.
TwoRowFamilies == {StatementFamily}

\* Families whose tables have one row, with many different cells.
OneRowFamilies ==
    {PairFamily, DescriptionFamily, MerchantFirstFamily, AmountFamily}

FamilyColumns ==
    UNION {Range(f.columns) :
              f \in MultiRowFamilies \cup TwoRowFamilies \cup OneRowFamilies}

\* Every text whose lower-case form is asked for often; see Lower.
CommonTexts ==
    ColumnNames \cup PairColumnNames \cup FamilyColumns
        \cup Range(date_patterns)
        \cup Range(amount_patterns) \cup Range(description_patterns)

----------------------------------------------------------------------------
(* Python str operations.                                                  *)

\* Python's None, for a column name that was not found.
None == "<None>"

Char(s, i) == SubSeq(s, i, i)

UpperToLower ==
    "A" :> "a" @@ "B" :> "b" @@ "C" :> "c" @@ "D" :> "d" @@ "E" :> "e" @@
    "F" :> "f" @@ "G" :> "g" @@ "H" :> "h" @@ "I" :> "i" @@ "J" :> "j" @@
    "K" :> "k" @@ "L" :> "l" @@ "M" :> "m" @@ "N" :> "n" @@ "O" :> "o" @@
    "P" :> "p" @@ "Q" :> "q" @@ "R" :> "r" @@ "S" :> "s" @@ "T" :> "t" @@
    "U" :> "u" @@ "V" :> "v" @@ "W" :> "w" @@ "X" :> "x" @@ "Y" :> "y" @@
    "Z" :> "z"

LowerChar(c) == IF c \in DOMAIN UpperToLower THEN UpperToLower[c] ELSE c

RECURSIVE LowerFrom(_, _)
LowerFrom(s, i) ==
    IF i > Len(s) THEN "" ELSE LowerChar(Char(s, i)) \o LowerFrom(s, i + 1)

\* str.lower() of the common texts, computed once.
LowerTable ==
    [s \in CommonTexts \cup {LowerFrom(t, 1) : t \in CommonTexts}
        |-> LowerFrom(s, 1)]

LowerTableDomain == DOMAIN LowerTable

\* str.lower()
Lower(s) == IF s \in LowerTableDomain THEN LowerTable[s] ELSE LowerFrom(s, 1)

Whitespace == {" ", "\t", "\n", "\r"}

RECURSIVE LStrip(_)
LStrip(s) ==
    IF Len(s) > 0 /\ Char(s, 1) \in Whitespace
    THEN LStrip(SubSeq(s, 2, Len(s)))
    ELSE s

RECURSIVE RStrip(_)
RStrip(s) ==
    IF Len(s) > 0 /\ Char(s, Len(s)) \in Whitespace
    THEN RStrip(SubSeq(s, 1, Len(s) - 1))
    ELSE s

\* str.strip() of the common texts, computed once.
StripTable == [s \in LowerTableDomain |-> RStrip(LStrip(s))]

\* str.strip()
Strip(s) == IF s \in LowerTableDomain THEN StripTable[s] ELSE RStrip(LStrip(s))

\* Python's `pattern in s` on strings.
StrIn(pattern, s) ==
    \E i \in 0..(Len(s) - Len(pattern)) :
        SubSeq(s, i + 1, i + Len(pattern)) = pattern

\* `pattern.lower() in col.lower().strip()`, the test every column scan
\* of the processor makes.
ContainsPattern(pattern, col) == StrIn(Lower(pattern), Strip(Lower(col)))

\* The same test for the common patterns and column names, computed once.
SidePatterns ==
    {"debit", "withdrawal", "outgoing", "credit", "deposit", "incoming"}

CommonPatterns ==
    Range(date_patterns) \cup Range(amount_patterns)
        \cup Range(description_patterns) \cup SidePatterns

CommonColumns ==
    LET names == ColumnNames \cup PairColumnNames \cup FamilyColumns
    IN  names \cup {Strip(Lower(name)) : name \in names}

ContainsTable ==
    [col \in CommonColumns |->
        {pattern \in CommonPatterns : ContainsPattern(pattern, col)}]

ContainsTableDomain == CommonColumns

Contains(pattern, col) ==
    IF col \in ContainsTableDomain /\ pattern \in CommonPatterns
    THEN pattern \in ContainsTable[col]
    ELSE ContainsPattern(pattern, col)

RECURSIVE RemoveFrom(_, _, _)
RemoveFrom(s, chars, i) ==
    IF i > Len(s) THEN ""
    ELSE (IF Char(s, i) \in chars THEN "" ELSE Char(s, i))
             \o RemoveFrom(s, chars, i + 1)

\* s.replace(c, '') for every c in chars
Remove(s, chars) == RemoveFrom(s, chars, 1)

\* str(value) of a cell: the missing cell prints as "nan".
Str(value) == IF value = NaN THEN "nan" ELSE value

----------------------------------------------------------------------------
(* Sequence helpers.                                                       *)

SeqContains(seq, x) == \E i \in 1..Len(seq) : seq[i] = x

IndexOf(seq, x) == CHOOSE i \in 1..Len(seq) : seq[i] = x

----------------------------------------------------------------------------
(* Loading the argument: pd.read_csv(path) or df.copy().                   *)
(*                                                                         *)
(* A table is [columns, rows, dtype]: the column names in order, the rows  *)
(* as sequences of cells aligned with the columns, and per column whether  *)
(* pandas holds it as text ("object") or as numbers ("float64").  A cell   *)
(* of a numeric column is written by its text.                             *)

\* The strings pd.read_csv turns into a missing cell.
ReadCsvNaValues ==
    {"", "#N/A", "N/A", "NA", "NULL", "NaN", "None", "n/a", "nan", "null"}

IsDigit(c) == c \in {"0", "1", "2", "3", "4", "5", "6", "7", "8", "9"}

AllDigits(s) == \A i \in 1..Len(s) : IsDigit(Char(s, i))

\* A field pd.read_csv reads as a number: [sign] digits [. digits].
IsNumericField(s) ==
    LET body == IF Len(s) > 0 /\ Char(s, 1) \in {"-", "+"}
                THEN SubSeq(s, 2, Len(s)) ELSE s
        dots == {i \in 1..Len(body) : Char(body, i) = "."}
    IN  /\ Len(body) > 0
        /\ \/ AllDigits(body)
           \/ /\ Cardinality(dots) = 1
              /\ Len(body) > 1
              /\ AllDigits(Remove(body, {"."}))

ColumnCells(rows, j) == [r \in 1..Len(rows) |-> rows[r][j]]

\* pd.read_csv: NA strings become missing cells; a column whose remaining
\* cells are all numbers is numeric, any other column is text.
read_csv(file) ==
    LET rows == [r \in 1..Len(file.rows) |->
                    [j \in 1..Len(file.columns) |->
                        IF file.rows[r][j] \in ReadCsvNaValues \cup {NaN}
                        THEN NaN ELSE file.rows[r][j]]]
    IN  [columns |-> file.columns,
         rows    |-> rows,
         dtype   |-> [j \in 1..Len(file.columns) |->
                        IF \A r \in 1..Len(rows) :
                              rows[r][j] = NaN \/ IsNumericField(rows[r][j])
                        THEN "float64" ELSE "object"]]

\* A DataFrame built by the caller from text cells: every column is text.
DataFrame(frame) ==
    [columns |-> frame.columns,
     rows    |-> frame.rows,
     dtype   |-> [j \in 1..Len(frame.columns) |-> "object"]]

\* process_csv / preview_mapping, up to the renaming of the columns:
\* df.columns = df.columns.str.lower().str.strip()
LoadAndNormalize(file_path_or_df) ==
    LET df == IF file_path_or_df.source = "path"
              THEN read_csv(file_path_or_df)
              ELSE DataFrame(file_path_or_df)
    IN  [df EXCEPT !.columns =
            [j \in 1..Len(df.columns) |-> Strip(Lower(df.columns[j]))]]

\* df[col] for row r
Cell(df, r, col) == df.rows[r][IndexOf(df.columns, col)]

----------------------------------------------------------------------------
(* Column selection.                                                       *)

Matches(col, patterns) ==
    \E k \in 1..Len(patterns) : Contains(patterns[k], col)

\* Mutant of _find_column: the last matching column instead of the first.
_find_column_last(df, patterns) ==
    LET hits == {j \in 1..Len(df.columns) : Matches(df.columns[j], patterns)}
    IN  IF hits = {} THEN None
        ELSE df.columns[CHOOSE j \in hits : \A h \in hits : j >= h]

\* The first column, in column order, that contains any of the patterns.
_find_column(df, patterns) ==
    LET hits == {j \in 1..Len(df.columns) : Matches(df.columns[j], patterns)}
    IN  IF hits = {} THEN None
        ELSE df.columns[CHOOSE j \in hits : \A h \in hits : j <= h]

\* The three shapes of amount_col: a column name, a (debit, credit) tuple,
\* or None.
SingleAmount(col) ==
    [kind |-> "single", col |-> col, debit |-> None, credit |-> None]

PairAmount(debit_col, credit_col) ==
    [kind |-> "pair", col |-> None, debit |-> debit_col, credit |-> credit_col]

NoAmount == [kind |-> "none", col |-> None, debit |-> None, credit |-> None]

IsDebitSide(col) ==
    Contains("debit", col) \/ Contains("withdrawal", col)
        \/ Contains("outgoing", col)

IsCreditSide(col) ==
    Contains("credit", col) \/ Contains("deposit", col)
        \/ Contains("incoming", col)

\* Mutant of DebitCreditScan: the first matching column of each side is
\* kept.
RECURSIVE DebitCreditScanLeftmost(_, _, _, _)
DebitCreditScanLeftmost(columns, j, debit_col, credit_col) ==
    IF j > Len(columns) THEN <<debit_col, credit_col>>
    ELSE IF IsDebitSide(columns[j])
         THEN DebitCreditScanLeftmost(
                  columns, j + 1,
                  IF debit_col = None THEN columns[j] ELSE debit_col,
                  credit_col)
    ELSE IF IsCreditSide(columns[j])
         THEN DebitCreditScanLeftmost(
                  columns, j + 1, debit_col,
                  IF credit_col = None THEN columns[j] ELSE credit_col)
    ELSE DebitCreditScanLeftmost(columns, j + 1, debit_col, credit_col)

\* The loop over the columns of _find_amount_column: each matching column
\* overwrites debit_col (if) or credit_col (elif).
RECURSIVE DebitCreditScan(_, _, _, _)
DebitCreditScan(columns, j, debit_col, credit_col) ==
    IF j > Len(columns) THEN <<debit_col, credit_col>>
    ELSE IF IsDebitSide(columns[j])
         THEN DebitCreditScan(columns, j + 1, columns[j], credit_col)
    ELSE IF IsCreditSide(columns[j])
         THEN DebitCreditScan(columns, j + 1, debit_col, columns[j])
    ELSE DebitCreditScan(columns, j + 1, debit_col, credit_col)

\* Mutant of _find_amount_column: the debit/credit pair is looked for
\* before a single amount column.
_find_amount_column_pair_first(df, me) ==
    LET single == _find_column(df, me.amount_patterns)
        scan   == DebitCreditScan(df.columns, 1, None, None)
    IN  IF scan[1] # None /\ scan[2] # None THEN PairAmount(scan[1], scan[2])
        ELSE IF single # None THEN SingleAmount(single)
        ELSE NoAmount

_find_amount_column(df, me) ==
    LET single == _find_column(df, me.amount_patterns)
        scan   == DebitCreditScan(df.columns, 1, None, None)
    IN  IF single # None THEN SingleAmount(single)
        ELSE IF scan[1] # None /\ scan[2] # None
             THEN PairAmount(scan[1], scan[2])
        ELSE NoAmount

\* re.match(r'^\d+[\.\,]?\d*$', s)
LooksLikeNumber(s) ==
    \E n \in 1..Len(s) :
        /\ AllDigits(SubSeq(s, 1, n))
        /\ \/ n = Len(s)
           \/ /\ Char(s, n + 1) \in {".", ","}
              /\ AllDigits(SubSeq(s, n + 2, Len(s)))

\* Mutant of ExplicitDescriptionScan: the loops swapped, column by column.
ExplicitDescriptionScanByColumn(columns, patterns, k, desc_cols) ==
    SelectSeq(columns, LAMBDA col : Matches(col, patterns))

\* The explicit scan of _find_description_columns: pattern by pattern, and
\* for each pattern column by column, appending a matching column that is
\* not in the list yet.  k counts the (pattern, column) pairs visited.
RECURSIVE ExplicitDescriptionScan(_, _, _, _)
ExplicitDescriptionScan(columns, patterns, k, desc_cols) ==
    IF k >= Len(patterns) * Len(columns) THEN desc_cols
    ELSE LET pattern == patterns[(k \div Len(columns)) + 1]
             col     == columns[(k % Len(columns)) + 1]
         IN  ExplicitDescriptionScan(columns, patterns, k + 1,
                 IF Contains(pattern, col) /\ ~SeqContains(desc_cols, col)
                 THEN Append(desc_cols, col) ELSE desc_cols)

\* df[col].dropna().head(5)
SampleSize == 5

Sample(df, j) ==
    LET present == SelectSeq(ColumnCells(df.rows, j), LAMBDA v : v # NaN)
    IN  SubSeq(present, 1, IF Len(present) < SampleSize
                           THEN Len(present) ELSE SampleSize)

\* The fallback loop of _find_description_columns over every column.
RECURSIVE HeuristicDescriptionScan(_, _, _)
HeuristicDescriptionScan(df, j, desc_cols) ==
    IF j > Len(df.columns) THEN desc_cols
    ELSE LET sample == Sample(df, j)
             keep   == /\ ~SeqContains(desc_cols, df.columns[j])
                       /\ Len(sample) > 0
                       /\ df.dtype[j] = "object"
                       /\ ~LooksLikeNumber(Str(sample[1]))
         IN  HeuristicDescriptionScan(df, j + 1,
                 IF keep THEN Append(desc_cols, df.columns[j]) ELSE desc_cols)

\* Mutant of _find_description_columns: without the first-column fallback.
_find_description_columns_no_fallback(df, me) ==
    LET explicit  == ExplicitDescriptionScan(df.columns,
                         me.description_patterns, 0, <<>>)
    IN  IF explicit # <<>> THEN explicit
        ELSE HeuristicDescriptionScan(df, 1, explicit)

_find_description_columns(df, me) ==
    LET explicit  == ExplicitDescriptionScan(df.columns,
                         me.description_patterns, 0, <<>>)
        heuristic == HeuristicDescriptionScan(df, 1, explicit)
    IN  IF explicit # <<>> THEN explicit
        ELSE IF heuristic # <<>> THEN heuristic
        ELSE <<df.columns[1]>>

----------------------------------------------------------------------------
(* Python floats.  A finite float is n / 10^places, kept normalised (no    *)
(* trailing decimal zero) so that equal numbers are equal values.          *)

RECURSIVE Pow10(_)
Pow10(k) == IF k <= 0 THEN 1 ELSE 10 * Pow10(k - 1)

RECURSIVE Normalise(_, _)
Normalise(n, places) ==
    IF n = 0 THEN [kind |-> "num", n |-> 0, places |-> 0]
    ELSE IF places > 0 /\ n % 10 = 0 THEN Normalise(n \div 10, places - 1)
    ELSE [kind |-> "num", n |-> n, places |-> places]

Num(n, places) == Normalise(n, places)

FloatNaN == [kind |-> "nan", n |-> 0, places |-> 0]

FloatInf(sign) == [kind |-> "inf", n |-> sign, places |-> 0]

\* float(s) raised ValueError
NotAFloat == [kind |-> "error", n |-> 0, places |-> 0]

DigitValue ==
    "0" :> 0 @@ "1" :> 1 @@ "2" :> 2 @@ "3" :> 3 @@ "4" :> 4 @@
    "5" :> 5 @@ "6" :> 6 @@ "7" :> 7 @@ "8" :> 8 @@ "9" :> 9

RECURSIVE DigitsValue(_)
DigitsValue(s) ==
    IF Len(s) = 0 THEN 0
    ELSE 10 * DigitsValue(SubSeq(s, 1, Len(s) - 1)) + DigitValue[Char(s, Len(s))]

Positions(s, chars) == {i \in 1..Len(s) : Char(s, i) \in chars}

MinOf(S) == CHOOSE x \in S : \A y \in S : x <= y

\* An unsigned decimal literal: digits [. [digits]] | . digits, then
\* optionally e|E [sign] digits.
ParseDecimal(body, sign) ==
    LET es       == Positions(body, {"e", "E"})
        mantissa == IF es = {} THEN body ELSE SubSeq(body, 1, MinOf(es) - 1)
        exponent == IF es = {} THEN "" ELSE SubSeq(body, MinOf(es) + 1, Len(body))
        expNeg   == Len(exponent) > 0 /\ Char(exponent, 1) = "-"
        expDigits == IF Len(exponent) > 0 /\ Char(exponent, 1) \in {"-", "+"}
                     THEN SubSeq(exponent, 2, Len(exponent)) ELSE exponent
        dots     == Positions(mantissa, {"."})
        intPart  == IF dots = {} THEN mantissa
                    ELSE SubSeq(mantissa, 1, MinOf(dots) - 1)
        fracPart == IF dots = {} THEN ""
                    ELSE SubSeq(mantissa, MinOf(dots) + 1, Len(mantissa))
        wellFormed ==
            /\ Cardinality(dots) <= 1
            /\ AllDigits(intPart) /\ AllDigits(fracPart)
            /\ Len(intPart) + Len(fracPart) > 0
            /\ es = {} \/ (Len(expDigits) > 0 /\ AllDigits(expDigits))
        exp      == IF expNeg THEN 0 - DigitsValue(expDigits)
                    ELSE DigitsValue(expDigits)
        digits   == DigitsValue(intPart \o fracPart)
        places   == Len(fracPart) - exp
    IN  IF ~wellFormed THEN NotAFloat
        ELSE IF places >= 0 THEN Num(sign * digits, places)
        ELSE Num(sign * digits * Pow10(0 - places), 0)

\* Python's float(s) on a string (digit-group underscores are not modelled).
float(s) ==
    LET t    == Strip(s)
        neg  == Len(t) > 0 /\ Char(t, 1) = "-"
        body == IF Len(t) > 0 /\ Char(t, 1) \in {"-", "+"}
                THEN SubSeq(t, 2, Len(t)) ELSE t
        sign == IF neg THEN 0 - 1 ELSE 1
    IN  IF Lower(body) = "nan" THEN FloatNaN
        ELSE IF Lower(body) \in {"inf", "infinity"} THEN FloatInf(sign)
        ELSE ParseDecimal(body, sign)

\* pd.notna(x)
notna(x) == x.kind # "nan"

IsZero(x) == x.kind = "num" /\ x.n = 0

abs(x) == IF x.n < 0 THEN [x EXCEPT !.n = 0 - x.n] ELSE x

Negate(x) == [x EXCEPT !.n = 0 - x.n]

----------------------------------------------------------------------------
(* Amounts.                                                                *)

CurrencySymbols == {"$", "£", "€"}

\* Mutant of _clean_amount: parentheses are not turned into a minus sign.
_clean_amount_keeps_parentheses(value) ==
    LET stripped  == Strip(Str(value))
        noSymbols == Remove(Remove(stripped, CurrencySymbols), {",", " "})
        parsed    == float(noSymbols)
    IN  IF value = NaN THEN Num(0, 0)
        ELSE IF parsed.kind = "error" THEN Num(0, 0)
        ELSE parsed

\* Mutant of _clean_amount: without the try/except around float().
_clean_amount_no_except(value) ==
    LET stripped  == Strip(Str(value))
        noSymbols == Remove(Remove(stripped, CurrencySymbols), {",", " "})
        val_str   == IF StrIn("(", noSymbols) /\ StrIn(")", noSymbols)
                     THEN "-" \o Remove(noSymbols, {"(", ")"})
                     ELSE noSymbols
    IN  IF value = NaN THEN Num(0, 0) ELSE float(val_str)

_clean_amount(value) ==
    LET stripped  == Strip(Str(value))
        noSymbols == Remove(Remove(stripped, CurrencySymbols), {",", " "})
        val_str   == IF StrIn("(", noSymbols) /\ StrIn(")", noSymbols)
                     THEN "-" \o Remove(noSymbols, {"(", ")"})
                     ELSE noSymbols
        parsed    == float(val_str)
    IN  IF value = NaN THEN Num(0, 0)
        ELSE IF parsed.kind = "error" THEN Num(0, 0)
        ELSE parsed

\* Mutant of DebitCreditAmount: the credit cell is looked at first.
DebitCreditAmountCreditFirst(debitCell, creditCell) ==
    LET debit  == _clean_amount(debitCell)
        credit == _clean_amount(creditCell)
    IN  IF notna(credit) /\ ~IsZero(credit) THEN abs(credit)
        ELSE IF notna(debit) /\ ~IsZero(debit) THEN Negate(abs(debit))
        ELSE Num(0, 0)

\* The reconciliation of one row's debit and credit cells.
DebitCreditAmount(debitCell, creditCell) ==
    LET debit  == _clean_amount(debitCell)
        credit == _clean_amount(creditCell)
    IN  IF notna(debit) /\ ~IsZero(debit) THEN Negate(abs(debit))
        ELSE IF notna(credit) /\ ~IsZero(credit) THEN abs(credit)
        ELSE Num(0, 0)

\* One entry per row of df.
_process_amount(df, amount) ==
    [r \in 1..Len(df.rows) |->
        IF amount.kind = "pair"
        THEN DebitCreditAmount(Cell(df, r, amount.debit),
                               Cell(df, r, amount.credit))
        ELSE _clean_amount(Cell(df, r, amount.col))]

----------------------------------------------------------------------------
(* Descriptions.                                                           *)

RECURSIVE Parts(_, _, _, _)
Parts(df, r, cols, i) ==
    IF i > Len(cols) THEN <<>>
    ELSE LET val == Strip(Str(Cell(df, r, cols[i])))
         IN  (IF val # "" /\ Lower(val) \notin {"nan", "none", ""}
              THEN <<val>> ELSE <<>>) \o Parts(df, r, cols, i + 1)

RECURSIVE Join(_, _)
Join(sep, parts) ==
    IF Len(parts) = 0 THEN ""
    ELSE IF Len(parts) = 1 THEN parts[1]
    ELSE parts[1] \o sep \o Join(sep, Tail(parts))

\* Mutant of _combine_descriptions: no text for a row without parts.
_combine_descriptions_no_default(df, cols) ==
    [r \in 1..Len(df.rows) |-> Join(" | ", Parts(df, r, cols, 1))]

_combine_descriptions(df, cols) ==
    [r \in 1..Len(df.rows) |->
        LET parts == Parts(df, r, cols, 1)
        IN  IF parts # <<>> THEN Join(" | ", parts) ELSE "Unknown Transaction"]

----------------------------------------------------------------------------
(* Dates: pd.to_datetime(..., errors='coerce').  A date is the integer     *)
(* yyyymmdd, so that integer order is date order.                          *)

NaT == 0

\* The date pandas gives a cell that is not an ISO date but that its
\* general parser may still accept (a number, a partial date).
SomeOtherDate == 19700101

IsLeap(y) == (y % 4 = 0 /\ y % 100 # 0) \/ y % 400 = 0

DaysInMonth(y, m) ==
    IF m = 2 THEN (IF IsLeap(y) THEN 29 ELSE 28)
    ELSE IF m \in {4, 6, 9, 11} THEN 30 ELSE 31

IsIsoShape(s) ==
    /\ Len(s) = 10
    /\ Char(s, 5) = "-" /\ Char(s, 8) = "-"
    /\ AllDigits(SubSeq(s, 1, 4)) /\ AllDigits(SubSeq(s, 6, 7))
    /\ AllDigits(SubSeq(s, 9, 10))

HasDigit(s) == \E i \in 1..Len(s) : IsDigit(Char(s, i))

\* The values to_datetime can give one cell: a missing cell and text
\* without a digit are NaT, "YYYY-MM-DD" is that date when it is a calendar
\* date; what the general parser makes of any other text is left open.
to_datetime(value) ==
    LET s == Strip(Str(value))
        y == DigitsValue(SubSeq(s, 1, 4))
        m == DigitsValue(SubSeq(s, 6, 7))
        d == DigitsValue(SubSeq(s, 9, 10))
    IN  IF value = NaN \/ ~HasDigit(s) THEN {NaT}
        ELSE IF IsIsoShape(s)
             THEN (IF y >= 1 /\ m \in 1..12 /\ d \in 1..DaysInMonth(y, m)
                   THEN {y * 10000 + m * 100 + d} ELSE {NaT})
        ELSE {NaT, SomeOtherDate}

----------------------------------------------------------------------------
(* process_csv and preview_mapping.                                        *)

NoDateColumnError ==
    "Could not find date column. Please ensure CSV has a date column."

NoAmountColumnError ==
    "Could not find amount column. Please ensure CSV has an amount column."

NoDescriptionColumnsError ==
    "Could not find description columns. Please ensure CSV has description/merchant info."

\* Mutant of SchemaError: the amount column is checked before the date
\* column.
SchemaErrorAmountFirst(dc, ac, ds) ==
    IF ac.kind = "none" THEN NoAmountColumnError
    ELSE IF dc \in {None, ""} THEN NoDateColumnError
    ELSE IF ds = <<>> THEN NoDescriptionColumnsError
    ELSE ""

\* Mutant of SchemaError: a missing amount column is reported with the
\* message of the missing date column.
SchemaErrorOneMessage(dc, ac, ds) ==
    IF dc \in {None, ""} \/ ac.kind = "none" THEN NoDateColumnError
    ELSE IF ds = <<>> THEN NoDescriptionColumnsError
    ELSE ""

\* Mutant of SchemaError: a call that follows a failed call fails with the
\* same message.
SchemaErrorSticky(dc, ac, ds) ==
    IF error # "" THEN error
    ELSE IF dc \in {None, ""} THEN NoDateColumnError
    ELSE IF ac.kind = "none" THEN NoAmountColumnError
    ELSE IF ds = <<>> THEN NoDescriptionColumnsError
    ELSE ""

\* The checks of process_csv on the columns found: the message of the
\* ValueError raised, "" when none is.  `not x` holds of None, of the
\* empty string and of the empty list.
SchemaError(dc, ac, ds) ==
    IF dc \in {None, ""} THEN NoDateColumnError
    ELSE IF ac.kind = "none" THEN NoAmountColumnError
    ELSE IF ds = <<>> THEN NoDescriptionColumnsError
    ELSE ""

\* A cell whose date the documentation of to_datetime leaves open.
IsLooseDate(value) == {NaT, SomeOtherDate} \subseteq to_datetime(value)

\* The date column parsed: to_datetime's value for every row.  The pandas in
\* use settles the cells that to_datetime leaves open, the same way in
\* every call.
DateColumns(df, col) ==
    LET n      == Len(df.rows)
        values == UNION {to_datetime(Cell(df, r, col)) : r \in 1..n}
    IN  {dates \in [1..n -> values] :
            \A r \in 1..n :
               /\ dates[r] \in to_datetime(Cell(df, r, col))
               /\ IsLooseDate(Cell(df, r, col)) =>
                     (dates[r] = SomeOtherDate
                         <=> Strip(Str(Cell(df, r, col))) \in pandas.accepted)}

\* result_df with its columns date, description and amount filled, one row
\* for every row of df.
StandardRows(dates, descriptions, amounts) ==
    [r \in DOMAIN dates |->
        [date        |-> dates[r],
         description |-> descriptions[r],
         amount      |-> amounts[r]]]

\* Mutant of Kept: a row whose amount is zero is dropped as well.
KeptNonZero(rows) ==
    {r \in DOMAIN rows :
        /\ rows[r].date # NaT
        /\ rows[r].amount.kind # "nan"
        /\ ~IsZero(rows[r].amount)}

\* result_df.dropna(subset=['date', 'amount']): the rows that stay.
Kept(rows) ==
    {r \in DOMAIN rows : rows[r].date # NaT /\ rows[r].amount.kind # "nan"}

\* Mutant of SortOrders: ascending dates.
SortOrdersAscending(rows, kept) ==
    {order \in [1..Cardinality(kept) -> kept] :
        /\ \A i, j \in DOMAIN order : i # j => order[i] # order[j]
        /\ \A i \in DOMAIN order :
              i < Cardinality(kept) =>
                  \/ rows[order[i]].date < rows[order[i + 1]].date
                  \/ /\ rows[order[i]].date = rows[order[i + 1]].date
                     /\ pandas.tie_rank[order[i]]
                            < pandas.tie_rank[order[i + 1]]}

\* sort_values('date', ascending=False): the order the sort gives the kept
\* rows.  Which of two rows of equal date comes first is up to the sort of
\* the pandas in use, the same way in every call.
SortOrders(rows, kept) ==
    {order \in [1..Cardinality(kept) -> kept] :
        /\ \A i, j \in DOMAIN order : i # j => order[i] # order[j]
        /\ \A i \in DOMAIN order :
              i < Cardinality(kept) =>
                  \/ rows[order[i]].date > rows[order[i + 1]].date
                  \/ /\ rows[order[i]].date = rows[order[i + 1]].date
                     /\ pandas.tie_rank[order[i]]
                            < pandas.tie_rank[order[i + 1]]}

\* The message of the ValueError of float() when nothing catches it.
FloatValueError == "could not convert string to float"

\* The exception that ends process_csv, "" when it returns: a column that
\* was not found, or an exception that an amount cell raised and nothing
\* caught.
Raised(dc, ac, ds, amounts) ==
    IF SchemaError(dc, ac, ds) # "" THEN SchemaError(dc, ac, ds)
    ELSE IF \E r \in DOMAIN amounts : amounts[r].kind = "error"
         THEN FloatValueError
    ELSE ""

\* Mutant of CallerTable: without .copy(), the renaming of the columns
\* reaches the caller's DataFrame.
CallerTableWithoutCopy(file_path_or_df, df) ==
    IF file_path_or_df.source = "dataframe"
    THEN [file_path_or_df EXCEPT !.columns = df.columns]
    ELSE file_path_or_df

\* The caller's argument once the call is over.  The call works on df, the
\* table read from the path or the copy of the caller's DataFrame, so the
\* argument is as it was.
CallerTable(file_path_or_df, df) == file_path_or_df

process_csv ==
    /\ pc = "ready"
    /\ \E df \in {LoadAndNormalize(input)} :
       \E dc \in {_find_column(df, self.date_patterns)} :
       \E ac \in {_find_amount_column(df, self)} :
       \E ds \in {_find_description_columns(df, self)} :
       \E amounts \in {IF SchemaError(dc, ac, ds) = ""
                       THEN _process_amount(df, ac) ELSE <<>>} :
       \E failure \in {Raised(dc, ac, ds, amounts)} :
           /\ date_col' = dc
           /\ amount_col' = ac
           /\ description_cols' = ds
           /\ error' = failure
           /\ input' = CallerTable(input, df)
           /\ IF failure # ""
              THEN /\ pc' = "raised"
                   /\ standard_df' = <<>>
                   /\ result_df' = <<>>
              ELSE \E dates \in DateColumns(df, dc) :
                   \E rows \in {StandardRows(dates,
                                    _combine_descriptions(df, ds),
                                    amounts)} :
                   \E order \in SortOrders(rows, Kept(rows)) :
                       /\ standard_df' = rows
                       /\ result_df' = [i \in DOMAIN order |-> rows[order[i]]]
                       /\ pc' = "returned"
    /\ op' = "process_csv"
    /\ UNCHANGED <<self, preview, pandas, history, previews,
                   categorizer_vars, plaid_vars, app_vars>>

\* Mutant of Mapping: the date column is looked for among the amount
\* patterns.
MappingWithAmountAsDate(df, dc, ac, ds) ==
    [date_column         |-> _find_column(df, amount_patterns),
     amount_column       |-> ac,
     description_columns |-> ds,
     all_columns         |-> df.columns,
     sample_row          |-> IF Len(df.rows) > 0 THEN df.rows[1] ELSE <<>>]

\* The dict preview_mapping returns.
Mapping(df, dc, ac, ds) ==
    [date_column         |-> dc,
     amount_column       |-> ac,
     description_columns |-> ds,
     all_columns         |-> df.columns,
     sample_row          |-> IF Len(df.rows) > 0 THEN df.rows[1] ELSE <<>>]

preview_mapping ==
    /\ pc = "ready"
    /\ \E df \in {LoadAndNormalize(input)} :
       \E dc \in {_find_column(df, self.date_patterns)} :
       \E ac \in {_find_amount_column(df, self)} :
       \E ds \in {_find_description_columns(df, self)} :
           /\ date_col' = dc
           /\ amount_col' = ac
           /\ description_cols' = ds
           /\ input' = CallerTable(input, df)
           /\ preview' = Mapping(df, dc, ac, ds)
    /\ pc' = "returned"
    /\ op' = "preview_mapping"
    /\ UNCHANGED <<self, standard_df, result_df, error, pandas, history,
                   previews, categorizer_vars, plaid_vars, app_vars>>

Next == process_csv \/ preview_mapping

\* What a process_csv call gave its caller: the table or the exception.
Outcome == [pc |-> pc, error |-> error, result_df |-> result_df]

\* The tables of the callers of one instance.
CallInputs ==
    {[source  |-> "dataframe",
      columns |-> <<"Date", "Amount", "Description">>,
      rows    |-> << <<"2024-01-05", "5", "Rent">>,
                     <<"2024-01-05", "7", "Tea">> >>],
     [source  |-> "path",
      columns |-> <<"Date", "Amount", "Description">>,
      rows    |-> << <<"12", "5", "Rent">>, <<"2024-01-01", "0", "Tea">> >>],
     [source  |-> "dataframe",
      columns |-> <<"Memo", "Note">>,
      rows    |-> << <<"Coffee", "Coffee">> >>],
     [source  |-> "path",
      columns |-> <<"Posting Date", "Withdrawal", "Memo">>,
      rows    |-> <<>>]}

\* The instance is called again, with any table, once the call before is
\* over.  The locals of that call are garbage by then; history keeps what
\* a process_csv call gave.
next_call ==
    /\ pc \in {"returned", "raised"}
    /\ history' = IF op = "process_csv"
                  THEN history \cup {[input |-> input, outcome |-> Outcome]}
                  ELSE history
    /\ \E table \in CallInputs : input' = table
    /\ pc' = "ready"
    /\ op' = "none"
    /\ UNCHANGED <<self, date_col, amount_col, description_cols, standard_df,
                   result_df, preview, error, pandas, previews,
                   categorizer_vars, plaid_vars, app_vars>>

NextCalls == process_csv \/ preview_mapping \/ next_call

\* The tables of a caller who looks at the mapping and processes the
\* table: those above, one with several columns on each side of a
\* debit/credit pair, and one whose description columns come from the
\* cells.
PreviewInputs ==
    CallInputs \cup
    {[source  |-> "path",
      columns |-> <<"Date", "Withdrawal", "Deposit", "Outgoing", "Memo">>,
      rows    |-> << <<"2024-01-05", "", "3500.00", "45.32", "Rent">> >>],
     [source  |-> "dataframe",
      columns |-> <<"Date", "Amount", "Info">>,
      rows    |-> << <<"2024-01-05", "5", "Coffee">> >>],
     [source  |-> "dataframe",
      columns |-> <<"Total", "Value Date", "Payee", "Note">>,
      rows    |-> <<>>],
     [source  |-> "path",
      columns |-> <<"Merchant", "Post Date", " DEBIT ", "Credit">>,
      rows    |-> << <<"Starbucks", "2024-01-05", "(12.50)", "">>,
                     <<"Payroll", "2024-01-05", "", "3500.00">> >>]}

\* The instance is called again with the same table once the call before
\* is over; previews keeps what a preview_mapping call gave.
call_again ==
    /\ pc \in {"returned", "raised"}
    /\ previews' = IF op = "preview_mapping"
                   THEN previews \cup {[input |-> input, preview |-> preview]}
                   ELSE previews
    /\ pc' = "ready"
    /\ op' = "none"
    /\ UNCHANGED <<self, input, date_col, amount_col, description_cols,
                   standard_df, result_df, preview, error, pandas, history,
                   categorizer_vars, plaid_vars, app_vars>>

NextPreviews == process_csv \/ preview_mapping \/ call_again

----------------------------------------------------------------------------
(* TransactionCategorizer (src/categorizer.py).                            *)

CATEGORIES ==
    <<"Groceries", "Restaurants & Dining", "Transportation", "Utilities",
      "Rent/Mortgage", "Entertainment", "Shopping", "Healthcare",
      "Insurance", "Subscriptions", "Travel", "Income", "Transfers",
      "Other">>

\* categorization_chain.run raised instead of returning a text.
ChainRaises == "<Exception>"

\* Mutant of ClosestCategory: the model's text itself when no category
\* matches.
ClosestCategoryOrText(text, i) ==
    LET hits == {k \in 1..Len(CATEGORIES) :
                    \/ StrIn(Lower(CATEGORIES[k]), Lower(text))
                    \/ StrIn(Lower(text), Lower(CATEGORIES[k]))}
    IN  IF hits = {} THEN text ELSE CATEGORIES[MinOf(hits)]

\* Mutant of ClosestCategory: the last category that matches, as a loop
\* without its return would give.
ClosestCategoryLast(text, i) ==
    LET hits == {k \in i..Len(CATEGORIES) :
                    \/ StrIn(Lower(CATEGORIES[k]), Lower(text))
                    \/ StrIn(Lower(text), Lower(CATEGORIES[k]))}
    IN  IF hits = {} THEN "Other"
        ELSE CATEGORIES[CHOOSE k \in hits : \A h \in hits : h <= k]

\* The loop over CATEGORIES from position i on: the first category whose
\* lower-case name contains, or is contained in, the lower-case text;
\* "Other" when the loop ends.
RECURSIVE ClosestCategory(_, _)
ClosestCategory(text, i) ==
    IF i > Len(CATEGORIES) THEN "Other"
    ELSE IF \/ StrIn(Lower(CATEGORIES[i]), Lower(text))
            \/ StrIn(Lower(text), Lower(CATEGORIES[i]))
         THEN CATEGORIES[i]
    ELSE ClosestCategory(text, i + 1)

\* The try block of categorize_transaction on the text the chain gave.
ValidatedCategory(result) ==
    LET stripped == Strip(result)
    IN  IF SeqContains(CATEGORIES, stripped) THEN stripped
        ELSE ClosestCategory(stripped, 1)

categorize_transaction ==
    /\ category = None
    /\ category' = IF chain_result = ChainRaises THEN "Other"
                   ELSE ValidatedCategory(chain_result)
    /\ UNCHANGED <<csv_vars, transaction, chain_result, plaid_vars,
                   app_vars>>

NextCategorizer == categorize_transaction

----------------------------------------------------------------------------
(* PlaidConnector (src/plaid_connector.py).                                *)

Institutions == {"Chase", "USAA"}

\* What the Plaid API may answer to item_public_token_exchange.
ExchangeResponses ==
    {[kind |-> "exchange", access_token |-> t, item_id |-> "item-1"] :
        t \in {"access-1", "access-2"}}

\* The Plaid API raised plaid.ApiException.
ApiException == [kind |-> "ApiException"]

\* No request was made to the Plaid API.
NoResponse == [kind |-> "none"]

\* The call in progress has not returned or raised yet.
NoResult == [kind |-> "none"]

\* Python dict, as the sequence of its entries in insertion order.
HasKey(d, k) == \E i \in 1..Len(d) : d[i].name = k

Keys(d) == [i \in 1..Len(d) |-> d[i].name]

GetItem(d, k) == d[CHOOSE i \in 1..Len(d) : d[i].name = k]

\* d[k] = entry: an existing key keeps its place.
SetItem(d, k, entry) ==
    IF HasKey(d, k)
    THEN [i \in 1..Len(d) |-> IF d[i].name = k THEN entry ELSE d[i]]
    ELSE Append(d, entry)

\* del d[k]
DelItem(d, k) == SelectSeq(d, LAMBDA e : e.name # k)

\* Mutant of AfterExchange: the entry of the institution is dropped when
\* the exchange fails.
AfterExchangeForgets(tokens, institution_name, resp) ==
    IF resp.kind = "ApiException" THEN DelItem(tokens, institution_name)
    ELSE SetItem(tokens, institution_name,
                 [name         |-> institution_name,
                  access_token |-> resp.access_token,
                  item_id      |-> resp.item_id])

\* access_tokens after exchange_public_token: the assignment is inside the
\* try block, after the request.
AfterExchange(tokens, institution_name, resp) ==
    IF resp.kind = "ApiException" THEN tokens
    ELSE SetItem(tokens, institution_name,
                 [name         |-> institution_name,
                  access_token |-> resp.access_token,
                  item_id      |-> resp.item_id])

\* The dict exchange_public_token returns.
ExchangeResult(institution_name, resp) ==
    IF resp.kind = "ApiException"
    THEN [kind |-> "dict", success |-> FALSE, item_id |-> None,
          institution_name |-> None, error |-> "plaid.ApiException"]
    ELSE [kind |-> "dict", success |-> TRUE, item_id |-> resp.item_id,
          institution_name |-> institution_name, error |-> None]

\* The later of the two events of a name: its successful exchange, its
\* remove_account.
Exchanged(events, institution_name, resp) ==
    IF resp.kind = "ApiException" THEN events
    ELSE [events EXCEPT ![institution_name] = "exchanged"]

exchange_public_token ==
    /\ plaid_pc = "idle"
    /\ \E institution_name \in Institutions :
       \E resp \in ExchangeResponses \cup {ApiException} :
           /\ response' = resp
           /\ access_tokens' =
                  AfterExchange(access_tokens, institution_name, resp)
           /\ plaid_result' = ExchangeResult(institution_name, resp)
           /\ last_event' = Exchanged(last_event, institution_name, resp)
           /\ plaid_call' = [op               |-> "exchange_public_token",
                             institution_name |-> institution_name,
                             reached_api      |-> TRUE]
    /\ plaid_pc' = "returned"
    /\ transactions' = <<>>
    /\ UNCHANGED <<csv_vars, categorizer_vars, app_vars>>

\* The transactions the Plaid API may report.  amount is positive for money
\* leaving the account; has_category tells whether the key 'category' is
\* there.
PlaidTransactions ==
    {[date |-> 20240105, name |-> "WHOLE FOODS", amount |-> Num(4532, 2),
      pending |-> FALSE, has_category |-> TRUE,
      category |-> <<"Shops", "Food">>, transaction_id |-> "t1",
      merchant_name |-> "Whole Foods"],
     [date |-> 20240101, name |-> "PAYROLL", amount |-> Num(0 - 3500, 0),
      pending |-> FALSE, has_category |-> FALSE,
      category |-> <<>>, transaction_id |-> "t2",
      merchant_name |-> None],
     [date |-> 20240105, name |-> "UBER", amount |-> Num(1250, 2),
      pending |-> TRUE, has_category |-> TRUE,
      category |-> <<"Travel">>, transaction_id |-> "t3",
      merchant_name |-> "Uber"]}

MaxPage == 1

MaxFetched == 2

SeqsUpTo(S, n) == UNION {[1..k -> S] : k \in 0..n}

\* What the Plaid API may answer to transactions_get when offset
\* transactions are collected already: a page of any transactions with any
\* total.  request tells the answers to two requests in a row apart.
PageResponses(offset, request) ==
    {[kind |-> "page", transactions |-> page, total_transactions |-> total,
      request |-> request] :
        page \in SeqsUpTo(PlaidTransactions,
                          IF MaxFetched - offset < MaxPage
                          THEN MaxFetched - offset ELSE MaxPage),
        total \in 0..MaxFetched}

\* One element of df_data.
PlaidRow(txn) ==
    [date           |-> txn.date,
     description    |-> txn.name,
     amount         |-> Negate(txn.amount),
     category       |-> IF txn.has_category THEN Join(", ", txn.category)
                        ELSE "Other",
     pending        |-> txn.pending,
     transaction_id |-> txn.transaction_id,
     merchant_name  |-> txn.merchant_name]

PlaidColumns ==
    <<"date", "description", "amount", "category", "pending",
      "transaction_id", "merchant_name">>

\* pd.DataFrame(df_data): a list without elements gives a table without
\* columns.
PlaidFrame(txns) ==
    [columns |-> IF Len(txns) = 0 THEN <<>> ELSE PlaidColumns,
     rows    |-> [i \in 1..Len(txns) |-> PlaidRow(txns[i])]]

WithoutPending(row) ==
    [date           |-> row.date,
     description    |-> row.description,
     amount         |-> row.amount,
     category       |-> row.category,
     transaction_id |-> row.transaction_id,
     merchant_name  |-> row.merchant_name]

DropPending(rows) == [i \in 1..Len(rows) |-> WithoutPending(rows[i])]

\* The end of get_transactions on the transactions collected: the table
\* of the rows that are not pending, without the column pending.
\* df['pending'] raises KeyError on a table without that column.
TransactionsTable(txns) ==
    LET df == PlaidFrame(txns)
    IN  IF ~SeqContains(df.columns, "pending")
        THEN [kind |-> "KeyError", columns |-> <<>>, rows |-> <<>>]
        ELSE [kind    |-> "DataFrame",
              columns |-> SelectSeq(df.columns, LAMBDA c : c # "pending"),
              rows    |-> DropPending(
                              SelectSeq(df.rows, LAMBDA r : ~r.pending))]

\* get_transactions raised: the ValueError of an unknown institution, or
\* the Exception made from a plaid.ApiException.
Raises(kind) == [kind |-> kind, columns |-> <<>>, rows |-> <<>>]

\* get_transactions up to its first request.
get_transactions ==
    /\ plaid_pc = "idle"
    /\ \E institution_name \in Institutions :
          IF ~HasKey(access_tokens, institution_name)
          THEN /\ plaid_result' = Raises("ValueError")
               /\ plaid_pc' = "raised"
               /\ response' = NoResponse
               /\ transactions' = <<>>
               /\ plaid_call' = [op               |-> "get_transactions",
                                 institution_name |-> institution_name,
                                 reached_api      |-> FALSE]
          ELSE /\ plaid_call' = [op               |-> "get_transactions",
                                 institution_name |-> institution_name,
                                 reached_api      |-> TRUE]
               /\ \E resp \in PageResponses(0, 0) \cup {ApiException} :
                     /\ response' = resp
                     /\ IF resp.kind = "ApiException"
                        THEN /\ plaid_result' = Raises("Exception")
                             /\ plaid_pc' = "raised"
                             /\ transactions' = <<>>
                        ELSE /\ plaid_result' = NoResult
                             /\ plaid_pc' = "paging"
                             /\ transactions' = resp.transactions
    /\ UNCHANGED <<access_tokens, last_event>>
    /\ UNCHANGED <<csv_vars, categorizer_vars, app_vars>>

\* One turn of the while loop of get_transactions.
get_transactions_page ==
    /\ plaid_pc = "paging"
    /\ Len(transactions) < response.total_transactions
    /\ \E resp \in PageResponses(Len(transactions), 1 - response.request)
                     \cup {ApiException} :
          /\ response' = resp
          /\ IF resp.kind = "ApiException"
             THEN /\ plaid_result' = Raises("Exception")
                  /\ plaid_pc' = "raised"
                  /\ transactions' = transactions
             ELSE /\ plaid_result' = NoResult
                  /\ plaid_pc' = "paging"
                  /\ transactions' = transactions \o resp.transactions
    /\ UNCHANGED <<access_tokens, plaid_call, last_event>>
    /\ UNCHANGED <<csv_vars, categorizer_vars, app_vars>>

\* get_transactions once the loop is over.
get_transactions_return ==
    /\ plaid_pc = "paging"
    /\ ~(Len(transactions) < response.total_transactions)
    /\ plaid_result' = TransactionsTable(transactions)
    /\ plaid_pc' = IF TransactionsTable(transactions).kind = "DataFrame"
                   THEN "returned" ELSE "raised"
    /\ UNCHANGED <<access_tokens, plaid_call, transactions, response,
                   last_event>>
    /\ UNCHANGED <<csv_vars, categorizer_vars, app_vars>>

\* What a call of get_transactions that comes to an end may give
\* get_all_transactions: the table of any transactions collected, or an
\* exception.
FetchOutcomes ==
    {Raises("Exception")}
        \cup {TransactionsTable(txns) :
                 txns \in SeqsUpTo(PlaidTransactions, MaxFetched)}

\* df['account'] = institution_name
Tagged(rows, institution_name) ==
    [i \in 1..Len(rows) |->
        [date           |-> rows[i].date,
         description    |-> rows[i].description,
         amount         |-> rows[i].amount,
         category       |-> rows[i].category,
         transaction_id |-> rows[i].transaction_id,
         merchant_name  |-> rows[i].merchant_name,
         account        |-> institution_name]]

\* Mutant of AllTransactions: the loop ends at the first institution whose
\* fetch fails.
RECURSIVE AllTransactionsUntilFailure(_, _, _)
AllTransactionsUntilFailure(names, outcome, i) ==
    IF i > Len(names) THEN <<>>
    ELSE IF outcome[names[i]].kind = "DataFrame"
         THEN <<Tagged(outcome[names[i]].rows, names[i])>>
                  \o AllTransactionsUntilFailure(names, outcome, i + 1)
    ELSE <<>>

\* The loop of get_all_transactions from the i-th institution on: the
\* list all_transactions of the tagged tables; an institution whose fetch
\* raises adds nothing.
RECURSIVE AllTransactions(_, _, _)
AllTransactions(names, outcome, i) ==
    IF i > Len(names) THEN <<>>
    ELSE IF outcome[names[i]].kind = "DataFrame"
         THEN <<Tagged(outcome[names[i]].rows, names[i])>>
                  \o AllTransactions(names, outcome, i + 1)
    ELSE AllTransactions(names, outcome, i + 1)

\* pd.concat(frames, ignore_index=True)
RECURSIVE Concat(_)
Concat(frames) ==
    IF Len(frames) = 0 THEN <<>> ELSE frames[1] \o Concat(Tail(frames))

RemoveAt(rows, i) == SubSeq(rows, 1, i - 1) \o SubSeq(rows, i + 1, Len(rows))

\* sort_values('date', ascending=False): the rows by date, latest first;
\* rows of one date in any order.
RECURSIVE SortedByDate(_)
SortedByDate(rows) ==
    IF Len(rows) = 0 THEN {<<>>}
    ELSE UNION {{<<rows[i]>> \o rest : rest \in SortedByDate(RemoveAt(rows, i))} :
                   i \in {k \in 1..Len(rows) :
                             \A j \in 1..Len(rows) :
                                 rows[j].date <= rows[k].date}}

get_all_transactions ==
    /\ plaid_pc = "idle"
    /\ \E outcome \in [Range(Keys(access_tokens)) -> FetchOutcomes] :
       \E frames \in {AllTransactions(Keys(access_tokens), outcome, 1)} :
           /\ response' = [kind |-> "fetches", outcome |-> outcome]
           /\ IF Len(frames) = 0
              THEN plaid_result' =
                       [kind |-> "DataFrame", columns |-> <<>>, rows |-> <<>>]
              ELSE \E sorted \in SortedByDate(Concat(frames)) :
                       plaid_result' =
                           [kind    |-> "DataFrame",
                            columns |-> <<"date", "description", "amount",
                                          "category", "transaction_id",
                                          "merchant_name", "account">>,
                            rows    |-> sorted]
           /\ plaid_call' = [op               |-> "get_all_transactions",
                             institution_name |-> None,
                             reached_api      |-> Len(access_tokens) > 0]
    /\ plaid_pc' = "returned"
    /\ transactions' = <<>>
    /\ UNCHANGED <<access_tokens, last_event>>
    /\ UNCHANGED <<csv_vars, categorizer_vars, app_vars>>

list_connected_accounts ==
    /\ plaid_pc = "idle"
    /\ plaid_result' = [kind |-> "list", names |-> Keys(access_tokens)]
    /\ plaid_call' = [op               |-> "list_connected_accounts",
                      institution_name |-> None,
                      reached_api      |-> FALSE]
    /\ plaid_pc' = "returned"
    /\ response' = NoResponse
    /\ transactions' = <<>>
    /\ UNCHANGED <<access_tokens, last_event>>
    /\ UNCHANGED <<csv_vars, categorizer_vars, app_vars>>

\* Mutant of AfterRemove: the entry stays.
AfterRemoveKeeps(tokens, institution_name) == tokens

\* access_tokens after remove_account.
AfterRemove(tokens, institution_name) ==
    IF HasKey(tokens, institution_name)
    THEN DelItem(tokens, institution_name)
    ELSE tokens

remove_account ==
    /\ plaid_pc = "idle"
    /\ \E institution_name \in Institutions :
          /\ plaid_result' = [kind  |-> "bool",
                              value |-> HasKey(access_tokens,
                                               institution_name)]
          /\ access_tokens' = AfterRemove(access_tokens, institution_name)
          /\ last_event' = [last_event EXCEPT ![institution_name] = "removed"]
          /\ plaid_call' = [op               |-> "remove_account",
                            institution_name |-> institution_name,
                            reached_api      |-> FALSE]
    /\ plaid_pc' = "returned"
    /\ response' = NoResponse
    /\ transactions' = <<>>
    /\ UNCHANGED <<csv_vars, categorizer_vars, app_vars>>

NoCall == [op |-> "none", institution_name |-> None, reached_api |-> FALSE]

\* The caller has what the call gave, and the connector is free for the
\* next call.
next_plaid_call ==
    /\ plaid_pc \in {"returned", "raised"}
    /\ plaid_pc' = "idle"
    /\ plaid_call' = NoCall
    /\ transactions' = <<>>
    /\ response' = NoResponse
    /\ plaid_result' = NoResult
    /\ UNCHANGED <<access_tokens, last_event>>
    /\ UNCHANGED <<csv_vars, categorizer_vars, app_vars>>

NextPlaid ==
    \/ next_plaid_call
    \/ exchange_public_token
    \/ get_transactions
    \/ get_transactions_page
    \/ get_transactions_return
    \/ get_all_transactions
    \/ list_connected_accounts
    \/ remove_account

\* The calls of one fetch, on a connector with accounts connected.
NextFetch ==
    \/ get_transactions
    \/ get_transactions_page
    \/ get_transactions_return
    \/ next_plaid_call

----------------------------------------------------------------------------
(* The Streamlit app (src/app.py): its session state across the runs of    *)
(* the script, one run for every click or upload.                          *)

NoneValue == [kind |-> "None"]

MaxLoaded == 2

\* pd.DataFrame(categorized): the table of a load, by where it came from
\* and how many rows it has.
Loaded(source, n) == [kind |-> "DataFrame", source |-> source, rows |-> n]

\* FinancialAdvisorAgent(transactions_df, provider="groq")
Agent(df) == [kind |-> "FinancialAdvisorAgent", transactions_df |-> df]

\* Whether FinancialAdvisorAgent.__init__ or update_transactions comes to
\* its end: get_llm, _create_tools and _create_agent call the libraries,
\* which may raise.
AdvisorOutcomes == {"ok", "raises"}

\* The end of the three loads: transactions_df is assigned, then the
\* advisor is made if there is none, or given the new table otherwise.
\* update_transactions assigns its transactions_df before anything in it
\* may raise.
SetAdvisor(state, df, outcome) ==
    IF state.advisor.kind = "None"
    THEN IF outcome = "ok"
         THEN [state EXCEPT !.transactions_df = df, !.advisor = Agent(df)]
         ELSE [state EXCEPT !.transactions_df = df]
    ELSE [state EXCEPT !.transactions_df = df,
                       !.advisor.transactions_df = df]

\* What get_all_transactions gives the Sync handler: an exception, or a
\* table of so many rows.
SyncFetches == {[raised |-> TRUE, rows |-> 0]}
                   \cup {[raised |-> FALSE, rows |-> n] : n \in 0..MaxLoaded}

\* The handler of the button Sync Transactions from Banks.  Everything is
\* inside try / except Exception, which shows the error.
sync_transactions ==
    /\ \E fetch \in SyncFetches :
       \E outcome \in AdvisorOutcomes :
          IF fetch.raised
          THEN /\ app_error' = "st.error"
               /\ UNCHANGED session_state
          ELSE IF fetch.rows = 0
               THEN /\ app_error' = "st.warning"
                    /\ UNCHANGED session_state
          ELSE /\ session_state' =
                      SetAdvisor(session_state, Loaded("plaid", fetch.rows),
                                 outcome)
               /\ app_error' = IF outcome = "raises" THEN "st.error" ELSE ""
    /\ UNCHANGED <<csv_vars, categorizer_vars, plaid_vars>>

\* The files a user may upload: one that read_csv or to_datetime rejects,
\* one without the three columns, one with them and so many rows.
UploadedFiles ==
    {[readable |-> FALSE, has_columns |-> FALSE, rows |-> 0],
     [readable |-> TRUE, has_columns |-> FALSE, rows |-> 1]}
        \cup {[readable |-> TRUE, has_columns |-> TRUE, rows |-> n] :
                 n \in 0..MaxLoaded}

\* The handler of the CSV upload.  Everything is inside try / except
\* Exception, which shows the error.
upload_csv ==
    /\ \E uploaded_file \in UploadedFiles :
       \E outcome \in AdvisorOutcomes :
          IF ~uploaded_file.readable \/ ~uploaded_file.has_columns
          THEN /\ app_error' = "st.error"
               /\ UNCHANGED session_state
          ELSE /\ session_state' =
                      SetAdvisor(session_state,
                                 Loaded("csv", uploaded_file.rows), outcome)
               /\ app_error' = IF outcome = "raises" THEN "st.error" ELSE ""
    /\ UNCHANGED <<csv_vars, categorizer_vars, plaid_vars>>

SampleRows == 50

\* The handler of the button Load Sample Data.  Nothing catches what the
\* advisor raises: the run of the script ends with it.
load_sample_data ==
    /\ \E outcome \in AdvisorOutcomes :
          /\ session_state' =
                 SetAdvisor(session_state, Loaded("sample", SampleRows),
                            outcome)
          /\ app_error' = IF outcome = "raises" THEN "Exception" ELSE ""
    /\ UNCHANGED <<csv_vars, categorizer_vars, plaid_vars>>

Questions ==
    {"What are my top spending categories?",
     "How does my spending compare to last month?"}

MaxChat == 4

\* What advisor.ask returns: it catches every exception and answers with
\* a text.
Answer(advisor, question) ==
    IF advisor.transactions_df.rows = 0
    THEN "No transaction data available. Please upload transactions first."
    ELSE "answer"

\* The Ask button and the quick question buttons, shown when
\* transactions_df is not None: the question is appended to the chat, then
\* st.session_state.advisor.ask is called.  On None the attribute lookup
\* raises AttributeError, which nothing catches.
ask ==
    /\ session_state.transactions_df.kind # "None"
    /\ Len(session_state.chat_history) + 2 <= MaxChat
    /\ \E user_question \in Questions :
       \E asked \in {Append(session_state.chat_history,
                            [role |-> "user", content |-> user_question])} :
          IF session_state.advisor.kind = "None"
          THEN /\ session_state' =
                      [session_state EXCEPT !.chat_history = asked]
               /\ app_error' = "AttributeError"
          ELSE /\ session_state' =
                      [session_state EXCEPT !.chat_history =
                          Append(asked,
                                 [role    |-> "assistant",
                                  content |-> Answer(session_state.advisor,
                                                     user_question)])]
               /\ app_error' = ""
    /\ UNCHANGED <<csv_vars, categorizer_vars, plaid_vars>>

\* The button Clear Chat History, shown while there is a chat.
clear_chat_history ==
    /\ session_state.transactions_df.kind # "None"
    /\ Len(session_state.chat_history) > 0
    /\ session_state' = [session_state EXCEPT !.chat_history = <<>>]
    /\ app_error' = ""
    /\ UNCHANGED <<csv_vars, categorizer_vars, plaid_vars>>

NextApp ==
    \/ sync_transactions
    \/ upload_csv
    \/ load_sample_data
    \/ ask
    \/ clear_chat_history

----------------------------------------------------------------------------
(* Inputs.                                                                 *)

\* The sequences of pairwise distinct elements of S, of length lo..hi.
DistinctSeqs(S, lo, hi) ==
    UNION {{q \in [1..n -> S] : \A i, j \in 1..n : i # j => q[i] # q[j]} :
              n \in lo..hi}

MaxCols == 3

SchemaCells == {"12", "Coffee"}

Sources == {"path", "dataframe"}

\* Tables for the column selection: any arrangement of up to MaxCols
\* columns, without rows or with one row holding the same text throughout.
SchemaRows(cols) ==
    {<<>>} \cup {<<[j \in 1..Len(cols) |-> cell]>> : cell \in SchemaCells}

IsSchemaInput(table) ==
    \E cols \in DistinctSeqs(ColumnNames, 1, MaxCols) :
    \E src \in Sources :
    \E rows \in SchemaRows(cols) :
        table = [source |-> src, columns |-> cols, rows |-> rows]

MaxRows == 2

\* The rows of a family: one cell for every column.
FamilyRows(f) ==
    {row \in [1..Len(f.columns) -> UNION Range(f.cells)] :
        \A j \in 1..Len(f.columns) : row[j] \in f.cells[j]}

IsFamilyInput(table, f, lo, hi) ==
    \E src \in Sources :
    \E n \in lo..hi :
    \E rows \in [1..n -> FamilyRows(f)] :
        table = [source |-> src, columns |-> f.columns, rows |-> rows]

\* Tables for the row processing.
IsRowInput(table) ==
    \/ \E f \in MultiRowFamilies : IsFamilyInput(table, f, 0, MaxRows)
    \/ \E f \in TwoRowFamilies : IsFamilyInput(table, f, 2, 2)
    \/ \E f \in OneRowFamilies : IsFamilyInput(table, f, 1, 1)

\* The loose date texts in the date column of a table.
LooseDateTexts(table) ==
    LET df == LoadAndNormalize(table)
        dc == _find_column(df, date_patterns)
    IN  IF dc = None THEN {}
        ELSE {Strip(Str(Cell(df, r, dc))) :
                 r \in {q \in 1..Len(df.rows) : IsLooseDate(Cell(df, q, dc))}}

\* What the pandas in use may do on the tables given.  The choices that no
\* call on these tables can observe are left out.
Pandas(tables) ==
    {[accepted |-> a, tie_rank |-> p] :
        a \in SUBSET UNION {LooseDateTexts(t) : t \in tables},
        p \in IF \E t \in tables : Len(t.rows) >= 2
              THEN Permutations(1..MaxRows)
              ELSE {[r \in 1..MaxRows |-> r]}}

\* The categorizer at rest.
NoTransaction == [description |-> "", amount |-> 0]

InitCategorizerIdle ==
    /\ transaction = NoTransaction
    /\ chain_result = None
    /\ category = None

\* The connector after __init__.
InitPlaidIdle ==
    /\ access_tokens = <<>>
    /\ plaid_pc = "idle"
    /\ plaid_call = NoCall
    /\ transactions = <<>>
    /\ response = NoResponse
    /\ plaid_result = NoResult
    /\ last_event = [name \in Institutions |-> "none"]

\* The session state after the first run of the script.
InitAppIdle ==
    /\ session_state = [transactions_df |-> NoneValue,
                        advisor         |-> NoneValue,
                        chat_history    |-> <<>>]
    /\ app_error = ""

InitCall ==
    /\ self = SmartCSVProcessor
    /\ pc = "ready"
    /\ op = "none"
    /\ date_col = None
    /\ amount_col = NoAmount
    /\ description_cols = <<>>
    /\ standard_df = <<>>
    /\ result_df = <<>>
    /\ preview = <<>>
    /\ error = ""
    /\ history = {}
    /\ previews = {}

InitSchema ==
    /\ IsSchemaInput(input)
    /\ InitCall
    /\ pandas \in Pandas({input})
    /\ InitCategorizerIdle
    /\ InitPlaidIdle
    /\ InitAppIdle

SpecSchema == InitSchema /\ [][Next]_vars

\* The texts the language model may answer with.
ChainResults ==
    {"Groceries", " Groceries\n", "groceries", "Category: Groceries",
     "Restaurants & Dining", "Dining", "rent", "Rent/Mortgage.",
     "I think this is Travel or Shopping", "OTHER", "Income", "Transfers",
     "Subscriptions - Netflix", "Health", "Pizza", "Unknown",
     "I cannot categorize this.", "e", "", "   "}

Transactions ==
    {[description |-> d, amount |-> a] :
        d \in {"WHOLE FOODS", "PAYROLL", "Unknown Transaction"},
        a \in {Num(0 - 4532, 2), Num(3500, 0), Num(0, 0)}}

NoTable == [source |-> "dataframe", columns |-> <<"Date">>, rows |-> <<>>]

InitCategorizer ==
    /\ input = NoTable
    /\ InitCall
    /\ pandas \in Pandas({NoTable})
    /\ transaction \in Transactions
    /\ chain_result \in ChainResults \cup {ChainRaises}
    /\ category = None
    /\ InitPlaidIdle
    /\ InitAppIdle

SpecCategorizer == InitCategorizer /\ [][NextCategorizer]_vars

InitCalls ==
    /\ input \in CallInputs
    /\ InitCall
    /\ pandas \in Pandas(CallInputs)
    /\ InitCategorizerIdle
    /\ InitPlaidIdle
    /\ InitAppIdle

SpecCalls == InitCalls /\ [][NextCalls]_vars

MaxPairCols == 4

\* Tables for the debit/credit pair: any arrangement of two to
\* MaxPairCols columns, without rows.
IsPairInput(table) ==
    \E cols \in DistinctSeqs(PairColumnNames, 2, MaxPairCols) :
        table = [source |-> "dataframe", columns |-> cols, rows |-> <<>>]

InitPairs ==
    /\ IsPairInput(input)
    /\ InitCall
    /\ pandas \in Pandas({input})
    /\ InitCategorizerIdle
    /\ InitPlaidIdle
    /\ InitAppIdle

SpecPairs == InitPairs /\ [][Next]_vars

InitPreviews ==
    /\ input \in PreviewInputs
    /\ InitCall
    /\ pandas \in Pandas({input})
    /\ InitCategorizerIdle
    /\ InitPlaidIdle
    /\ InitAppIdle

SpecPreviews == InitPreviews /\ [][NextPreviews]_vars

InitRows ==
    /\ IsRowInput(input)
    /\ InitCall
    /\ pandas \in Pandas({input})
    /\ InitCategorizerIdle
    /\ InitPlaidIdle
    /\ InitAppIdle

SpecRows == InitRows /\ [][Next]_vars

InitPlaid ==
    /\ input = NoTable
    /\ InitCall
    /\ pandas \in Pandas({NoTable})
    /\ InitCategorizerIdle
    /\ InitPlaidIdle
    /\ InitAppIdle

SpecPlaid == InitPlaid /\ [][NextPlaid]_vars

\* A connector with one account connected or both.
InitFetch ==
    /\ input = NoTable
    /\ InitCall
    /\ pandas \in Pandas({NoTable})
    /\ InitCategorizerIdle
    /\ InitAppIdle
    /\ \E names \in DistinctSeqs(Institutions, 1, 2) :
           /\ access_tokens =
                  [i \in 1..Len(names) |->
                      [name |-> names[i], access_token |-> "access-1",
                       item_id |-> "item-1"]]
           /\ last_event = [name \in Institutions |->
                                IF name \in Range(names) THEN "exchanged"
                                ELSE "none"]
    /\ plaid_pc = "idle"
    /\ plaid_call = NoCall
    /\ transactions = <<>>
    /\ response = NoResponse
    /\ plaid_result = NoResult

\* The loop runs on while its condition holds, and the call goes on to its
\* end once the loop is over.
SpecFetch ==
    /\ InitFetch
    /\ [][NextFetch]_vars
    /\ WF_vars(get_transactions_page)
    /\ WF_vars(get_transactions_return)

InitApp ==
    /\ input = NoTable
    /\ InitCall
    /\ pandas \in Pandas({NoTable})
    /\ InitCategorizerIdle
    /\ InitPlaidIdle
    /\ InitAppIdle

SpecApp == InitApp /\ [][NextApp]_vars

----------------------------------------------------------------------------
(* Properties.  They are stated on the caller's table and on the synonym   *)
(* lists directly, not through the selection operators above.              *)

\* The column names as the processor matches them: lower-cased, trimmed.
NormalisedColumns ==
    [j \in 1..Len(input.columns) |-> Strip(Lower(input.columns[j]))]

\* The columns (by position) whose normalised name contains a synonym.
ColumnsWith(synonyms) ==
    {j \in 1..Len(input.columns) :
        \E syn \in synonyms : Contains(syn, input.columns[j])}

DateSynonyms == Range(date_patterns)

AmountSynonyms == Range(amount_patterns)

DescriptionSynonyms == Range(description_patterns)

DebitSideSynonyms == {"debit", "withdrawal", "outgoing"}

CreditSideSynonyms == {"credit", "deposit", "incoming"}

\* The table as process_csv reads it, and the cell of row r in the column
\* of (normalised) name col.
LoadedCell(r, col) == Cell(LoadAndNormalize(input), r, col)

Returned == op = "process_csv" /\ pc = "returned"

\* C1: on the table with columns Post Date, Debit, Credit, Memo and the two
\* rows of the end-to-end scenario, process_csv reconciles Debit and Credit
\* and returns (2024-01-05, WHOLE FOODS, -45.32), (2024-01-01, PAYROLL,
\* 3500.00) in that order.
C1_EndToEnd ==
    (/\ op = "process_csv"
     /\ input.columns = <<"Post Date", "Debit", "Credit", "Memo">>
     /\ input.rows = << <<"2024-01-05", "$45.32", "", "WHOLE FOODS">>,
                        <<"2024-01-01", "", "3500.00", "PAYROLL">> >>)
    => /\ pc = "returned"
       /\ amount_col = PairAmount("debit", "credit")
       /\ result_df =
            << [date |-> 20240105, description |-> "WHOLE FOODS",
                amount |-> Num(0 - 4532, 2)],
               [date |-> 20240101, description |-> "PAYROLL",
                amount |-> Num(3500, 0)] >>

\* C2: with a debit/credit pair as amount source, every row's amount is
\* -abs(debit) when the cleaned debit cell is present and nonzero (whatever
\* the credit cell), else +abs(credit) when the cleaned credit cell is
\* present and nonzero, else 0.
C2_DebitCreditRule ==
    (Returned /\ amount_col.kind = "pair") =>
        \A r \in 1..Len(standard_df) :
            LET debit  == _clean_amount(LoadedCell(r, amount_col.debit))
                credit == _clean_amount(LoadedCell(r, amount_col.credit))
                amount == standard_df[r].amount
                debitCounts  == debit.kind # "nan" /\ debit # Num(0, 0)
                creditCounts == credit.kind # "nan" /\ credit # Num(0, 0)
            IN  /\ debitCounts =>
                     /\ amount.kind = debit.kind
                     /\ amount.places = debit.places
                     /\ amount.n < 0
                     /\ amount.n \in {debit.n, 0 - debit.n}
                /\ (~debitCounts /\ creditCounts) =>
                     /\ amount.kind = credit.kind
                     /\ amount.places = credit.places
                     /\ amount.n > 0
                     /\ amount.n \in {credit.n, 0 - credit.n}
                /\ (~debitCounts /\ ~creditCounts) => amount = Num(0, 0)

\* A row whose debit and credit cells are both nonzero got the debit, negated.
C2_Witness ==
    /\ Returned /\ amount_col.kind = "pair"
    /\ \E r \in 1..Len(standard_df) :
          /\ _clean_amount(LoadedCell(r, amount_col.debit)) = Num(4532, 2)
          /\ _clean_amount(LoadedCell(r, amount_col.credit)) = Num(123456, 2)
          /\ standard_df[r].amount = Num(0 - 4532, 2)

\* The position in the synonym list of the first description synonym that
\* the normalised name of column j contains.
FirstDescriptionSynonym(j) ==
    MinOf({k \in 1..Len(description_patterns) :
              Contains(description_patterns[k], input.columns[j])})

\* The description of row r when the cells of the columns cols (names) are
\* trimmed, the empty and nan/none ones dropped, and the rest joined.
JoinedDescription(r, cols) ==
    LET values == [i \in 1..Len(cols) |-> Strip(Str(LoadedCell(r, cols[i])))]
        usable == SelectSeq(values,
                      LAMBDA v : v # "" /\ Lower(v) \notin {"nan", "none"})
    IN  IF usable = <<>> THEN "Unknown Transaction" ELSE Join(" | ", usable)

\* C3 (as stated): when columns match description synonyms, the selected
\* description columns are those columns in left-to-right column order.
C3_ColumnOrder ==
    (Returned /\ ColumnsWith(DescriptionSynonyms) # {}) =>
        description_cols =
            SelectSeq(NormalisedColumns,
                      LAMBDA col : \E syn \in DescriptionSynonyms :
                                      Contains(syn, col))

\* C3 (amended): when columns match description synonyms, all of them are
\* selected, ordered by the list position of the first synonym each name
\* contains and, for the same synonym, left to right; each row's
\* description joins its parts in that order.
C3_SynonymOrder ==
    (op # "none" /\ ColumnsWith(DescriptionSynonyms) # {}) =>
        LET matched == ColumnsWith(DescriptionSynonyms)
            pos(i)  == IndexOf(NormalisedColumns, description_cols[i])
        IN  /\ Len(description_cols) = Cardinality(matched)
            /\ Range(description_cols) = {NormalisedColumns[j] : j \in matched}
            /\ \A a, b \in 1..Len(description_cols) :
                  a < b =>
                     \/ FirstDescriptionSynonym(pos(a))
                            < FirstDescriptionSynonym(pos(b))
                     \/ /\ FirstDescriptionSynonym(pos(a))
                              = FirstDescriptionSynonym(pos(b))
                        /\ pos(a) < pos(b)
            /\ \A r \in 1..Len(standard_df) :
                  standard_df[r].description
                      = JoinedDescription(r, description_cols)

\* Merchant stands left of Memo, and memo is selected first.
C3_Witness ==
    /\ op = "process_csv"
    /\ input.columns = <<"Merchant", "Posting Date", "Memo">>
    /\ description_cols = <<"memo", "merchant">>

\* The columns (normalised names) that amount_col names.
AmountColumns ==
    IF amount_col.kind = "single" THEN {amount_col.col}
    ELSE IF amount_col.kind = "pair" THEN {amount_col.debit, amount_col.credit}
    ELSE {}

\* C4: when process_csv succeeds every column has one role: the date column
\* is no amount column, and neither is among the description columns.
C4_OneRolePerColumn ==
    Returned =>
        /\ date_col \notin AmountColumns
        /\ date_col \notin Range(description_cols)
        /\ AmountColumns \cap Range(description_cols) = {}

\* C5: the date column is the leftmost column whose normalised name
\* contains a date synonym (None when there is none).
C5_DateFirstMatch ==
    op # "none" =>
        LET dated == ColumnsWith(DateSynonyms)
        IN  /\ dated = {} => date_col = None
            /\ dated # {} => date_col = NormalisedColumns[MinOf(dated)]
            /\ input.columns = <<"Posting Date", "Transaction Date">>
                  => date_col = "posting date"

\* A later column matches too, and the first one is taken.
C5_Witness ==
    /\ op = "process_csv"
    /\ input.columns = <<"Memo", "Transaction Date", "Posting Date">>
    /\ date_col = "transaction date"

C7_NoDateColumn ==
    (op = "process_csv" /\ ColumnsWith(DateSynonyms) = {}) =>
        /\ pc = "raised"
        /\ error = NoDateColumnError
        /\ result_df = <<>>

\* Neither a date column nor an amount source: the date error is raised.
C7_Witness ==
    /\ op = "process_csv"
    /\ input.columns = <<"Memo", "Note">>
    /\ amount_col = NoAmount
    /\ pc = "raised"
    /\ error = NoDateColumnError

\* C8: with a date column, no column containing a single-amount synonym
\* and not both a debit-side and a credit-side column, process_csv fails
\* with the amount error, whose message differs from the date error's.
C8_NoAmountSource ==
    (/\ op = "process_csv"
     /\ ColumnsWith(DateSynonyms) # {}
     /\ ColumnsWith(AmountSynonyms) = {}
     /\ ~(ColumnsWith(DebitSideSynonyms) # {}
            /\ ColumnsWith(CreditSideSynonyms) # {}))
    => /\ pc = "raised"
       /\ error = NoAmountColumnError
       /\ error # NoDateColumnError
       /\ result_df = <<>>

\* Only a withdrawal column, no deposit column.
C8_Witness ==
    /\ op = "process_csv"
    /\ input.columns = <<"Posting Date", "Withdrawal", "Memo">>
    /\ pc = "raised"
    /\ error = NoAmountColumnError

\* C9: description-column selection never returns an empty list: it gives
\* the synonym matches, else columns of the table, in the last resort the
\* first column alone; so the description error is never raised.
C9_DescriptionsNeverEmpty ==
    op # "none" =>
        /\ description_cols # <<>>
        /\ error # NoDescriptionColumnsError
        /\ Range(description_cols) \subseteq Range(NormalisedColumns)
        /\ ColumnsWith(DescriptionSynonyms) # {} =>
              Range(description_cols)
                  = {NormalisedColumns[j] : j \in ColumnsWith(DescriptionSynonyms)}
        /\ (ColumnsWith(DescriptionSynonyms) = {} /\ input.rows = <<>>) =>
              description_cols = <<NormalisedColumns[1]>>

\* No synonym match and only numbers in the cells: the first column is taken.
C9_Witness ==
    /\ Returned
    /\ input.columns = <<"Posting Date", " DEBIT ", "Note">>
    /\ input.rows = << <<"12", "12", "12">> >>
    /\ description_cols = <<"posting date">>

\* C10: every row's description is its description cells trimmed, without
\* the empty and nan/none ones, joined by " | ", or "Unknown Transaction"
\* when nothing is left; so no description is empty.
C10_Description ==
    Returned =>
        /\ \A r \in 1..Len(standard_df) :
              /\ standard_df[r].description
                     = JoinedDescription(r, description_cols)
              /\ standard_df[r].description # ""
        /\ \A i \in 1..Len(result_df) : result_df[i].description # ""

\* "  Coffee  " and "Starbucks" give "Coffee | Starbucks".
C10_Witness ==
    /\ Returned
    /\ description_cols = <<"memo", "merchant">>
    /\ LoadedCell(1, "memo") = "  Coffee  "
    /\ LoadedCell(1, "merchant") = "Starbucks"
    /\ Len(result_df) = 1
    /\ result_df[1].description = "Coffee | Starbucks"

----------------------------------------------------------------------------
(* Amount cleaning, dropped rows and order.                                *)

\* A decimal numeral: [sign] digits [. digits].
IsDecimalText(s) ==
    LET body == IF Len(s) > 0 /\ Char(s, 1) \in {"-", "+"}
                THEN SubSeq(s, 2, Len(s)) ELSE s
    IN  /\ Len(body) > 0
        /\ Cardinality(Positions(body, {"."})) <= 1
        /\ \A i \in 1..Len(body) : IsDigit(Char(body, i)) \/ Char(body, i) = "."
        /\ \E i \in 1..Len(body) : IsDigit(Char(body, i))

IsUnsignedDecimalText(s) ==
    IsDecimalText(s) /\ Char(s, 1) \notin {"-", "+"}

\* A cell's text without currency symbols, thousands separators and spaces.
CleanedText(cell) == Remove(Strip(cell), {"$", "£", "€", ",", " "})

IsWrapped(t) == Len(t) >= 2 /\ Char(t, 1) = "(" /\ Char(t, Len(t)) = ")"

\* The rows of the table read whose cell in the single amount column is
\* text.
TextAmountRows ==
    {r \in 1..Len(standard_df) : LoadedCell(r, amount_col.col) # NaN}

\* C11: amount cleaning strips the currency symbols, the thousands
\* separator and spaces and turns a number wrapped in parentheses into its
\* negative, before parsing: "$1,234.56" gives 1234.56, "(45.00)" gives
\* -45.00, "€10" gives 10.0.
C11_AmountCleaning ==
    (Returned /\ amount_col.kind = "single") =>
        \A r \in TextAmountRows :
            LET cell   == LoadedCell(r, amount_col.col)
                t      == CleanedText(cell)
                inner  == SubSeq(t, 2, Len(t) - 1)
                amount == standard_df[r].amount
            IN  /\ IsDecimalText(t) => amount = float(t)
                /\ (IsWrapped(t) /\ IsUnsignedDecimalText(inner))
                       => amount = Negate(float(inner))
                /\ cell = "$1,234.56" => amount = Num(123456, 2)
                /\ cell = "(45.00)" => amount = Num(0 - 45, 0)
                /\ cell = "€10" => amount = Num(10, 0)

C11_Witness ==
    /\ Returned
    /\ amount_col = SingleAmount("amount")
    /\ Len(input.rows) = 1
    /\ LoadedCell(1, "amount") = "(45.00)"
    /\ Len(result_df) = 1
    /\ result_df[1].amount = Num(0 - 45, 0)

\* C12: in a single amount column every cell that is missing, empty or not
\* a number yields the amount 0, never a missing amount, so the row is not
\* dropped on account of its amount.
C12_UnparseableIsZero ==
    (Returned /\ amount_col.kind = "single") =>
        \A r \in 1..Len(standard_df) :
            LET cell == LoadedCell(r, amount_col.col)
            IN  /\ standard_df[r].amount.kind # "nan"
                /\ (cell = NaN \/ ~HasDigit(cell))
                       => standard_df[r].amount = Num(0, 0)

\* Row r of the table read has a date / an amount.
HasDate(r) ==
    /\ standard_df[r].date # NaT
    /\ standard_df[r].date \in to_datetime(LoadedCell(r, date_col))

HasAmount(r) == standard_df[r].amount.kind # "nan"

\* The ways to match every output row with an input row of its own.
RowOrigins ==
    {f \in [1..Len(result_df) -> 1..Len(input.rows)] :
        /\ \A i, j \in DOMAIN f : i # j => f[i] # f[j]
        /\ \A i \in DOMAIN f : result_df[i] = standard_df[f[i]]}

\* C13: the output has no more rows than the input; every output row comes
\* from one input row that has a date and an amount; every input row that
\* is missing from the output lacks a date or an amount; a row whose amount
\* is zero stays.
C13_DroppedRows ==
    Returned =>
        /\ Len(result_df) <= Len(input.rows)
        /\ Len(standard_df) = Len(input.rows)
        /\ \E f \in RowOrigins :
              /\ \A i \in DOMAIN f : HasDate(f[i]) /\ HasAmount(f[i])
              /\ \A r \in 1..Len(input.rows) :
                    (\A i \in DOMAIN f : f[i] # r)
                        => (~HasDate(r) \/ ~HasAmount(r))
              /\ \A r \in 1..Len(input.rows) :
                    (HasDate(r) /\ IsZero(standard_df[r].amount))
                        => \E i \in DOMAIN f : f[i] = r

C13_Witness ==
    /\ Returned
    /\ Len(input.rows) = 2
    /\ Len(result_df) = 1
    /\ ~HasDate(1)
    /\ result_df[1] = standard_df[2]
    /\ IsZero(result_df[1].amount)

\* C14: the table returned is ordered by date, descending, whatever the
\* order of the input rows.
C14_SortedDescending ==
    Returned =>
        \A i \in 1..(Len(result_df) - 1) :
            result_df[i].date >= result_df[i + 1].date

C14_Witness ==
    /\ Returned
    /\ Len(input.rows) = 2
    /\ standard_df[1].date = 20240101
    /\ standard_df[2].date = 20240105
    /\ Len(result_df) = 2
    /\ result_df[1] = standard_df[2]
    /\ result_df[2] = standard_df[1]

\* C17: once a date column and an amount source are found, process_csv
\* does not fail on cell contents: it returns, the rows without a date or
\* an amount are left out, and a table whose rows are all left out gives
\* the empty table.
C17_NoRowLevelFailure ==
    (/\ op = "process_csv"
     /\ date_col \notin {None, ""}
     /\ amount_col.kind # "none") =>
        /\ pc = "returned"
        /\ error = ""
        /\ Len(result_df)
              = Cardinality({r \in 1..Len(input.rows) :
                                HasDate(r) /\ HasAmount(r)})

C17_Witness ==
    /\ Returned
    /\ input.columns = <<"Date", "Amount", "Description">>
    /\ Len(input.rows) = 1
    /\ input.rows[1][1] = "2024-02-30"
    /\ input.rows[1][2] = "abc"
    /\ result_df = <<>>

----------------------------------------------------------------------------
(* The heuristic description fallback.                                     *)

\* No column name contains a description synonym and the call has
\* returned.
HeuristicCase == pc = "returned" /\ ColumnsWith(DescriptionSynonyms) = {}

\* The first few present cells of column j of the table read.
LeadingCells(j) == Sample(LoadAndNormalize(input), j)

\* C19: in the heuristic description fallback the date column and the
\* amount columns are never chosen as description columns (the single
\* first column of the last resort aside).
C19_HeuristicSkipsDateAndAmount ==
    HeuristicCase =>
        \/ description_cols = <<NormalisedColumns[1]>>
        \/ \A i \in 1..Len(description_cols) :
              description_cols[i] \notin {date_col} \cup AmountColumns

\* C20: in the heuristic description fallback a column other than the date
\* and amount columns is not retained when its leading cells are all
\* numbers, nor when only the first of them is text.
C20_HeuristicTextOnly ==
    HeuristicCase =>
        \A j \in 2..Len(input.columns) :
            LET sample   == LeadingCells(j)
                numeric  == {k \in 1..Len(sample) : IsDecimalText(sample[k])}
                retained == SeqContains(description_cols, NormalisedColumns[j])
            IN  (/\ NormalisedColumns[j] \notin {date_col} \cup AmountColumns
                 /\ Len(sample) > 0
                 /\ \/ numeric = 1..Len(sample)
                    \/ Len(sample) >= 2 /\ numeric = 2..Len(sample))
                    => ~retained

----------------------------------------------------------------------------
(* Calls on one instance.                                                  *)

----------------------------------------------------------------------------
(* Categorization.                                                         *)

\* C18: categorize_transaction returns a member of CATEGORIES for every
\* answer of the model, and "Other" when the model call raises; it never
\* returns the model's text as it came.
C18_CategoryInList ==
    category # None =>
        /\ \E k \in 1..Len(CATEGORIES) : category = CATEGORIES[k]
        /\ chain_result = ChainRaises => category = "Other"
        /\ chain_result \in {"Pizza", "Unknown"} => category = "Other"
        /\ chain_result = " Groceries\n" => category = "Groceries"

C18_Witness ==
    /\ chain_result = "I think this is Travel or Shopping"
    /\ category = "Shopping"

\* a occurs in b as a run of consecutive characters (Python's a in b).
Within(a, b) ==
    \E i \in 0..(Len(b) - Len(a)) : SubSeq(b, i + 1, i + Len(a)) = a

\* The positions of the categories whose lower-case name contains the
\* lower-case text or is contained in it.
Qualifying(text) ==
    {k \in 1..Len(CATEGORIES) :
        \/ Within(Lower(CATEGORIES[k]), Lower(text))
        \/ Within(Lower(text), Lower(CATEGORIES[k]))}

\* C28: when the trimmed answer of the model is not a category name,
\* categorize_transaction returns the first category, in the order of
\* CATEGORIES, whose lower-case name contains the lower-case answer or is
\* contained in it, and "Other" only when there is none; an empty answer
\* gives "Groceries".
C28_FirstQualifyingCategory ==
    (/\ category # None
     /\ chain_result # ChainRaises
     /\ \A k \in 1..Len(CATEGORIES) : CATEGORIES[k] # Strip(chain_result)) =>
        LET hits == Qualifying(Strip(chain_result))
        IN  /\ hits = {} => category = "Other"
            /\ hits # {} =>
                   \E k \in hits : /\ category = CATEGORIES[k]
                                    /\ \A h \in hits : k <= h
            /\ Strip(chain_result) = "" => category = "Groceries"

C28_Witness ==
    /\ chain_result = "   "
    /\ category = "Groceries"
    /\ Cardinality(Qualifying("")) = Len(CATEGORIES)

----------------------------------------------------------------------------
(* The preview.                                                            *)

----------------------------------------------------------------------------
(* The debit/credit pair.                                                  *)

OnDebitSide(name) ==
    \E p \in {"debit", "withdrawal", "outgoing"} : Within(p, name)

OnCreditSide(name) ==
    \E p \in {"credit", "deposit", "incoming"} : Within(p, name)

HasDatePattern(name) ==
    \E k \in 1..Len(date_patterns) : Within(date_patterns[k], name)

MaxOf(S) == CHOOSE x \in S : \A y \in S : y <= x

\* C27: when the amount source is a debit/credit pair, the debit column is
\* the rightmost column matching a debit-side pattern and the credit column
\* the rightmost column matching a credit-side pattern and no debit-side
\* pattern, while the date column is the leftmost column matching a date
\* pattern.
C27_RightmostOfEachSide ==
    (pc # "ready" /\ amount_col.kind = "pair") =>
        LET cols    == NormalisedColumns
            debits  == {j \in 1..Len(cols) : OnDebitSide(cols[j])}
            credits == {j \in 1..Len(cols) :
                           OnCreditSide(cols[j]) /\ ~OnDebitSide(cols[j])}
            dated   == {j \in 1..Len(cols) : HasDatePattern(cols[j])}
        IN  /\ debits # {} /\ credits # {}
            /\ amount_col.debit = cols[MaxOf(debits)]
            /\ amount_col.credit = cols[MaxOf(credits)]
            /\ dated # {} => date_col = cols[MinOf(dated)]

C27_Witness ==
    /\ op = "process_csv"
    /\ pc # "ready"
    /\ input.columns =
           <<"Post Date", "Deposit", "Outgoing", "Withdrawal/Deposit">>
    /\ amount_col = PairAmount("withdrawal/deposit", "deposit")

----------------------------------------------------------------------------
(* The Plaid connector.                                                    *)

\* A call of the method begins in this step and, for all but
\* get_transactions on a connected name, ends in it.
Calls(method) == plaid_pc = "idle" /\ plaid_call'.op = method

\* A successful exchange for the name has occurred, with no
\* remove_account of the name since.
Connected(institution_name) == last_event[institution_name] = "exchanged"

\* C22: get_transactions(name) reaches the Plaid API only if the name was
\* exchanged successfully and not removed since, and raises ValueError
\* without a request otherwise; remove_account returns True exactly when
\* the name was connected, leaves the name unlisted, and changes nothing
\* when it returns False; list_connected_accounts lists the connected
\* names.
C22_ConnectedOnly ==
    [][/\ Calls("get_transactions") =>
              LET name == plaid_call'.institution_name
              IN  /\ plaid_call'.reached_api <=> Connected(name)
                  /\ ~Connected(name) =>
                         /\ plaid_result'.kind = "ValueError"
                         /\ response' = NoResponse
                         /\ plaid_pc' = "raised"
       /\ Calls("remove_account") =>
              LET name == plaid_call'.institution_name
              IN  /\ plaid_result'.value <=> Connected(name)
                  /\ ~SeqContains(Keys(access_tokens'), name)
                  /\ ~Connected(name) => access_tokens' = access_tokens
                  /\ \A other \in Institutions \ {name} :
                         SeqContains(Keys(access_tokens'), other)
                             <=> SeqContains(Keys(access_tokens), other)
       /\ Calls("list_connected_accounts") =>
              Range(plaid_result'.names)
                  = {name \in Institutions : Connected(name)}
      ]_vars

C22_Witness ==
    /\ plaid_call.op = "get_transactions"
    /\ plaid_call.institution_name = "Chase"
    /\ plaid_result.kind = "ValueError"
    /\ last_event["Chase"] = "removed"
    /\ Keys(access_tokens) = <<"USAA">>

\* C23: exchange_public_token returns success=True and records the
\* institution with the token the API gave when the exchange succeeds;
\* when the API rejects the token it returns success=False with an error
\* and leaves access_tokens as it was.
C23_ExchangeRecordsOnSuccess ==
    [][Calls("exchange_public_token") =>
          LET name == plaid_call'.institution_name
          IN  /\ plaid_result'.kind = "dict"
              /\ plaid_result'.success <=> response'.kind = "exchange"
              /\ response'.kind = "ApiException" =>
                     /\ access_tokens' = access_tokens
                     /\ plaid_result'.error # None
              /\ response'.kind = "exchange" =>
                     /\ SeqContains(Keys(access_tokens'), name)
                     /\ GetItem(access_tokens', name).access_token
                            = response'.access_token
                     /\ plaid_result'.institution_name = name
                     /\ \A other \in Institutions \ {name} :
                            /\ SeqContains(Keys(access_tokens'), other)
                                   <=> SeqContains(Keys(access_tokens), other)
                            /\ SeqContains(Keys(access_tokens), other) =>
                                   GetItem(access_tokens', other)
                                       = GetItem(access_tokens, other)
      ]_vars

C23_Witness ==
    /\ plaid_call.op = "exchange_public_token"
    /\ plaid_result.kind = "dict"
    /\ ~plaid_result.success
    /\ response.kind = "ApiException"
    /\ Len(access_tokens) = 2
    /\ HasKey(access_tokens, plaid_call.institution_name)

\* The rows of one institution in a table of get_all_transactions.
RowsOf(rows, institution_name) ==
    SelectSeq(rows, LAMBDA r : r.account = institution_name)

\* The same rows, however ordered.
SameRows(a, b) ==
    /\ Len(a) = Len(b)
    /\ \A r \in Range(a) \cup Range(b) :
           Cardinality({i \in 1..Len(a) : a[i] = r})
               = Cardinality({i \in 1..Len(b) : b[i] = r})

\* C24: get_all_transactions returns a table: for every connected
\* institution whose fetch succeeds the rows of that fetch, tagged with the
\* institution, and no other row, by date descending; the table is empty
\* when no institution is connected or every fetch fails.
C24_AllTransactions ==
    plaid_call.op = "get_all_transactions" =>
        LET fetched == response.outcome
            good    == {name \in DOMAIN fetched :
                           fetched[name].kind = "DataFrame"}
            rows    == plaid_result.rows
        IN  /\ plaid_pc = "returned"
            /\ plaid_result.kind = "DataFrame"
            /\ DOMAIN fetched = Range(Keys(access_tokens))
            /\ \A name \in good :
                   SameRows(RowsOf(rows, name),
                            Tagged(fetched[name].rows, name))
            /\ \A i \in 1..Len(rows) : rows[i].account \in good
            /\ \A i \in 1..Len(rows) - 1 : rows[i].date >= rows[i + 1].date
            /\ good = {} => rows = <<>>

C24_Witness ==
    /\ plaid_call.op = "get_all_transactions"
    /\ Keys(access_tokens) = <<"USAA", "Chase">>
    /\ response.outcome["USAA"].kind = "Exception"
    /\ response.outcome["Chase"].kind = "DataFrame"
    /\ Len(plaid_result.rows) = 2
    /\ plaid_result.rows[1].date > plaid_result.rows[2].date
    /\ plaid_result.rows[2].account = "Chase"

\* C25: the pagination loop of get_transactions comes to an end whatever
\* pages the API answers with.
C25_LoopTerminates == (plaid_pc = "paging") ~> (plaid_pc # "paging")

\* C26: when the Plaid API calls succeed, get_transactions returns a table
\* that has the columns date, description, amount, category and holds the
\* fetched transactions that are not pending, in their order, each with
\* the sign of its amount changed; without transactions the table is
\* empty.
C26_NonPendingSignFlipped ==
    (/\ plaid_call.op = "get_transactions"
     /\ plaid_call.reached_api
     /\ plaid_pc \in {"returned", "raised"}
     /\ response.kind = "page") =>
        LET kept == SelectSeq(transactions, LAMBDA t : ~t.pending)
        IN  /\ plaid_pc = "returned"
            /\ plaid_result.kind = "DataFrame"
            /\ Len(plaid_result.rows) = Len(kept)
            /\ \A i \in 1..Len(kept) :
                   /\ plaid_result.rows[i].date = kept[i].date
                   /\ plaid_result.rows[i].description = kept[i].name
                   /\ plaid_result.rows[i].amount.n = 0 - kept[i].amount.n
            /\ Len(kept) > 0 =>
                   {"date", "description", "amount", "category"}
                       \subseteq Range(plaid_result.columns)

----------------------------------------------------------------------------
(* The app.                                                                *)

\* C29: in the session state, after any loads, transactions_df is set
\* only if advisor is set, and no run of the script ends with the
\* AttributeError of a question asked of a missing advisor.
C29_DataImpliesAdvisor ==
    /\ session_state.transactions_df.kind # "None" =>
           session_state.advisor.kind # "None"
    /\ app_error # "AttributeError"

====
